---------------------------- MODULE Spec2Model ----------------------------
(***************************************************************************)
(* A model of the tabular-data analysis engine: the query router           *)
(* (analyze / detectIntent and the seven handlers), the profiler, the      *)
(* forecaster, the trend, anomaly and correlation analyzers and the        *)
(* insight synthesizer.                                                    *)
(*                                                                         *)
(* Strings that the code inspects character by character (the query, the   *)
(* column names, the query labels of a response) are sequences of          *)
(* one-character strings.  Numbers are integers, NaN or Infinity; every    *)
(* comparison the code makes on a quotient is made here on the cross       *)
(* products, in exact arithmetic.                                          *)
(***************************************************************************)
EXTENDS Integers, Sequences, FiniteSets, TLC

VARIABLES dataset, runtimeLenientDates, pc, call, response, earlier

vars == <<dataset, runtimeLenientDates, pc, call, response, earlier>>

\* no call in progress, no response, nothing kept
NoCall == [op |-> "none"]

-----------------------------------------------------------------------------
(* Characters and strings                                                  *)

LowerLetters ==
  <<"a","b","c","d","e","f","g","h","i","j","k","l","m",
    "n","o","p","q","r","s","t","u","v","w","x","y","z">>

UpperLetters ==
  <<"A","B","C","D","E","F","G","H","I","J","K","L","M",
    "N","O","P","Q","R","S","T","U","V","W","X","Y","Z">>

DigitChars == {"0","1","2","3","4","5","6","7","8","9"}

SeqRange(s) == { s[i] : i \in DOMAIN s }

\* \w of a JavaScript regular expression
WordChars ==
  SeqRange(LowerLetters) \cup SeqRange(UpperLetters) \cup DigitChars \cup {"_"}

IsWordChar(c) == c \in WordChars

\* \s of a JavaScript regular expression (the blank is the only white space
\* a query of the model holds)
IsSpaceChar(c) == c = " "

IsQuoteChar(c) == c \in {"\"", "'"}

\* the lower-case letter of each upper-case letter
LowerCaseOf ==
  [c \in SeqRange(UpperLetters) |->
     LowerLetters[CHOOSE i \in DOMAIN UpperLetters : UpperLetters[i] = c]]

UpperChars == SeqRange(UpperLetters)

toLowerCaseChar(c) == IF c \in UpperChars THEN LowerCaseOf[c] ELSE c

\* String.prototype.toLowerCase
toLowerCase(s) == [i \in DOMAIN s |-> toLowerCaseChar(s[i])]

\* sub occurs in s from position p on
OccursAt(s, p, sub) ==
  /\ p >= 1
  /\ p + Len(sub) - 1 <= Len(s)
  /\ \A i \in DOMAIN sub : s[p + i - 1] = sub[i]

\* String.prototype.includes
includes(s, sub) == \E p \in 1..(Len(s) + 1) : OccursAt(s, p, sub)

-----------------------------------------------------------------------------
(* Query router: intent detection                                          *)

\* The seven intents
QueryIntent ==
  {"summary", "anomalies", "forecast", "trends", "correlation", "explain", "profile"}

\* the if-chain of detectIntent, in its order: the intent returned and the
\* substrings of the lower-cased query that select it
IntentKeywords ==
  << [intent |-> "profile", words |->
        { <<"p","r","o","f","i","l","e">>,
          <<"o","v","e","r","v","i","e","w">>,
          <<"s","t","r","u","c","t","u","r","e">> }],
     [intent |-> "summary", words |->
        { <<"s","u","m","m","a","r">>,
          <<"d","e","s","c","r","i","b","e">>,
          <<"t","e","l","l"," ","m","e"," ","a","b","o","u","t">> }],
     [intent |-> "anomalies", words |->
        { <<"a","n","o","m","a","l">>,
          <<"o","u","t","l","i","e","r">>,
          <<"u","n","u","s","u","a","l">>,
          <<"s","t","r","a","n","g","e">> }],
     [intent |-> "forecast", words |->
        { <<"f","o","r","e","c","a","s","t">>,
          <<"p","r","e","d","i","c","t">>,
          <<"f","u","t","u","r","e">>,
          <<"p","r","o","j","e","c","t">> }],
     [intent |-> "trends", words |->
        { <<"t","r","e","n","d">>,
          <<"p","a","t","t","e","r","n">>,
          <<"o","v","e","r"," ","t","i","m","e">>,
          <<"d","i","r","e","c","t","i","o","n">> }],
     [intent |-> "correlation", words |->
        { <<"c","o","r","r","e","l","a","t">>,
          <<"r","e","l","a","t","i","o","n">>,
          <<"c","o","n","n","e","c","t">>,
          <<"a","f","f","e","c","t">> }],
     [intent |-> "explain", words |->
        { <<"e","x","p","l","a","i","n">>,
          <<"w","h","a","t"," ","i","s">>,
          <<"h","a","p","p","e","n","i","n","g">> }] >>

\* a literal of the /i regular expression at position p
MatchLiteral(q, p, lit) ==
  /\ p >= 1
  /\ p + Len(lit) - 1 <= Len(q)
  /\ \A i \in DOMAIN lit : toLowerCaseChar(q[p + i - 1]) = lit[i]

\* the position after the longest run of white space that starts at p
RECURSIVE SkipSpaces(_, _)
SkipSpaces(q, p) ==
  IF p <= Len(q) /\ IsSpaceChar(q[p]) THEN SkipSpaces(q, p + 1) ELSE p

\* the position after the longest run of word characters that starts at p
RECURSIVE SkipWord(_, _)
SkipWord(q, p) ==
  IF p <= Len(q) /\ IsWordChar(q[p]) THEN SkipWord(q, p + 1) ELSE p

\* ["']?(\w+) at p: the capture, or <<>> when no word character follows the
\* optional quote (without the quote the quote itself is no word character)
QuotedWordAt(q, p) ==
  LET w == IF p <= Len(q) /\ IsQuoteChar(q[p]) THEN p + 1 ELSE p
      e == SkipWord(q, w)
  IN  IF e > w THEN SubSeq(q, w, e - 1) ELSE <<>>

\* column\s+["']?(\w+)["']? at p
MatchColumnWord(q, p) ==
  LET k == p + 6
      w == SkipSpaces(q, k)
  IN  IF MatchLiteral(q, p, <<"c","o","l","u","m","n">>) /\ w > k
        THEN QuotedWordAt(q, w)
        ELSE <<>>

\* ["'](\w+)["']\s+column at p
MatchWordColumn(q, p) ==
  LET e == SkipWord(q, p + 1)
      w == SkipSpaces(q, e + 1)
  IN  IF /\ p <= Len(q) /\ IsQuoteChar(q[p])
         /\ e > p + 1
         /\ e <= Len(q) /\ IsQuoteChar(q[e])
         /\ w > e + 1
         /\ MatchLiteral(q, w, <<"c","o","l","u","m","n">>)
        THEN SubSeq(q, p + 1, e - 1)
        ELSE <<>>

\* (?:is|about)?\s*["']?(\w+) at w, the position after the white space that
\* follows the verb: "is" is tried first, then "about", then neither
MatchVerbObjectFrom(q, w) ==
  LET afterIs    == IF MatchLiteral(q, w, <<"i","s">>)
                      THEN QuotedWordAt(q, SkipSpaces(q, w + 2)) ELSE <<>>
      afterAbout == IF MatchLiteral(q, w, <<"a","b","o","u","t">>)
                      THEN QuotedWordAt(q, SkipSpaces(q, w + 5)) ELSE <<>>
  IN  IF afterIs # <<>> THEN afterIs
      ELSE IF afterAbout # <<>> THEN afterAbout
      ELSE QuotedWordAt(q, w)

\* (?:what|explain|analyze)\s+(?:is|about)?\s*["']?(\w+)["']? at p
MatchVerbObject(q, p) ==
  LET k == IF MatchLiteral(q, p, <<"w","h","a","t">>) THEN p + 4
           ELSE IF MatchLiteral(q, p, <<"e","x","p","l","a","i","n">>) THEN p + 7
           ELSE IF MatchLiteral(q, p, <<"a","n","a","l","y","z","e">>) THEN p + 7
           ELSE 0
      w == SkipSpaces(q, k)
  IN  IF k > 0 /\ w > k THEN MatchVerbObjectFrom(q, w) ELSE <<>>

\* the three alternatives at p, in the order of the regular expression
MatchAt(q, p) ==
  IF MatchColumnWord(q, p) # <<>> THEN MatchColumnWord(q, p)
  ELSE IF MatchWordColumn(q, p) # <<>> THEN MatchWordColumn(q, p)
  ELSE MatchVerbObject(q, p)

\* query.match(...): the leftmost match; columnMatch[1] || columnMatch[2] ||
\* columnMatch[3], <<>> standing for undefined
RECURSIVE columnMatchFrom(_, _)
columnMatchFrom(q, p) ==
  IF p > Len(q) THEN <<>>
  ELSE IF MatchAt(q, p) # <<>> THEN MatchAt(q, p)
  ELSE columnMatchFrom(q, p + 1)

targetColumnOf(q) == columnMatchFrom(q, 1)

\* the first entry of the if-chain from index i on with a keyword in the
\* lower-cased query; summary when there is none
RECURSIVE firstIntentFrom(_, _)
firstIntentFrom(lowerQuery, i) ==
  IF i > Len(IntentKeywords) THEN "summary"
  ELSE IF \E w \in IntentKeywords[i].words : includes(lowerQuery, w)
    THEN IntentKeywords[i].intent
  ELSE firstIntentFrom(lowerQuery, i + 1)

\* detectIntent with the test for a trend keyword moved to the head of the
\* if-chain
detectIntent_trendsFirst(query) ==
  [intent |-> IF \E w \in IntentKeywords[5].words : includes(toLowerCase(query), w)
                THEN "trends"
                ELSE firstIntentFrom(toLowerCase(query), 1),
   targetColumn |-> targetColumnOf(query)]

detectIntent(query) ==
  [intent |-> firstIntentFrom(toLowerCase(query), 1),
   targetColumn |-> targetColumnOf(query)]

-----------------------------------------------------------------------------
(* Cells, rows and datasets                                                *)

\* A cell is a JavaScript scalar: a number (finite, Infinity or NaN), a
\* string, a boolean, null or undefined.  v is the value of a finite number
\* (and 1/0 of a boolean), s the text of a string or the kind of a number.
Num(v) == [k |-> "number", v |-> v, s |-> "fin"]
Infinity == [k |-> "number", v |-> 0, s |-> "inf"]
NaN == [k |-> "number", v |-> 0, s |-> "nan"]
Str(s) == [k |-> "string", v |-> 0, s |-> s]
Bool(b) == [k |-> "boolean", v |-> IF b THEN 1 ELSE 0, s |-> ""]
Null == [k |-> "null", v |-> 0, s |-> ""]
Undefined == [k |-> "undefined", v |-> 0, s |-> ""]

\* A row is a JavaScript object: its keys in insertion order, each with its
\* cell.  row[column] of a key the row does not hold is undefined.
Keys(row) == [i \in DOMAIN row |-> row[i][1]]

Get(row, column) ==
  IF \E i \in DOMAIN row : row[i][1] = column
    THEN row[CHOOSE i \in DOMAIN row : row[i][1] = column][2]
    ELSE Undefined

\* rows.map(row => row[column])
ColumnValues(rows, column) == [i \in DOMAIN rows |-> Get(rows[i], column)]

\* the strings of the cells of the model, each with what Number() makes of
\* it and whether one of the three date patterns matches it
StringTable ==
  [ text    : {""},           number : {Num(0)},  datePattern : {FALSE} ] \cup
  [ text    : {"12"},         number : {Num(12)}, datePattern : {FALSE} ] \cup
  [ text    : {"7"},          number : {Num(7)},  datePattern : {FALSE} ] \cup
  [ text    : {"abc", "north", "south", "Yes", "yes", "true", "false",
               "null", "undefined", "NaN"},
                              number : {NaN},     datePattern : {FALSE} ] \cup
  [ text    : {"Infinity"},   number : {Infinity}, datePattern : {FALSE} ] \cup
  [ text    : {"2024-01-05"}, number : {NaN},     datePattern : {TRUE} ]

StringEntry(text) == CHOOSE e \in StringTable : e.text = text

DecimalDigits == <<"0","1","2","3","4","5","6","7","8","9">>

\* Number.prototype.toString of an integer
RECURSIVE NaturalToString(_)
NaturalToString(n) ==
  IF n < 10 THEN DecimalDigits[n + 1]
  ELSE NaturalToString(n \div 10) \o DecimalDigits[(n % 10) + 1]

IntegerToString(n) ==
  IF n < 0 THEN "-" \o NaturalToString(0 - n) ELSE NaturalToString(n)

\* Number(v)
Number(cell) ==
  CASE cell.k = "number"    -> cell
    [] cell.k = "string"    -> StringEntry(cell.s).number
    [] cell.k = "boolean"   -> Num(cell.v)
    [] cell.k = "null"      -> Num(0)
    [] cell.k = "undefined" -> NaN

\* String(v)
String(cell) ==
  CASE cell.k = "number"    -> IF cell.s = "fin" THEN IntegerToString(cell.v)
                               ELSE IF cell.s = "inf" THEN "Infinity" ELSE "NaN"
    [] cell.k = "string"    -> cell.s
    [] cell.k = "boolean"   -> IF cell.v = 1 THEN "true" ELSE "false"
    [] cell.k = "null"      -> "null"
    [] cell.k = "undefined" -> "undefined"

isNaN(n) == n.s = "nan"
isFinite(n) == n.s = "fin"

\* v !== null && v !== undefined && v !== ''
IsNonNull(cell) ==
  ~ (cell.k = "null" \/ cell.k = "undefined" \/ (cell.k = "string" /\ cell.s = ""))

\* toLowerCase of the text of a cell (the only upper-case letter among the
\* strings of the model is the Y of "Yes")
LowerText(text) == IF text = "Yes" THEN "yes" ELSE text

\* the text is the decimal form of an integer
IsIntegerText(text) ==
  LET e == IF \E x \in StringTable : x.text = text
             THEN StringEntry(text).number ELSE Num(0)
  IN  text # "" /\ isFinite(e)

\* datePatterns.some(p => p.test(str)) || !isNaN(Date.parse(str)).  What
\* Date.parse makes of a string that is no ISO date is left to the runtime:
\* a bare integer is a date in some runtimes and not in others.
IsDateLike(cell) ==
  LET str == String(cell)
      known == \E x \in StringTable : x.text = str
  IN  \/ known /\ StringEntry(str).datePattern
      \/ IsIntegerText(str) /\ runtimeLenientDates

\* the size of the sample of detectColumnType
SampleSize == 100

Min(a, b) == IF a <= b THEN a ELSE b
Max(a, b) == IF a >= b THEN a ELSE b

\* new Set(values.map(String)).size
UniqueTexts(cells) == { String(cells[i]) : i \in DOMAIN cells }

\* new Set(values): cells are distinct when they differ in type or value
UniqueCells(cells) == { cells[i] : i \in DOMAIN cells }

IsBooleanText(cell) ==
  LowerText(String(cell)) \in {"true", "false", "1", "0", "yes", "no"}

IsNumericCell(cell) == ~ isNaN(Number(cell)) /\ ~ (cell.k = "string" /\ cell.s = "")

\* detectColumnType with the numeric rule tried before the boolean one
detectColumnType_numericFirst(values) ==
  LET nonNullValues == SelectSeq(values, IsNonNull)
      sample == SubSeq(nonNullValues, 1, Min(SampleSize, Len(nonNullValues)))
  IN  IF Len(nonNullValues) = 0 THEN "text"
      ELSE IF 10 * Len(SelectSeq(sample, IsNumericCell)) >= 9 * Len(sample) THEN "numeric"
      ELSE IF \A i \in DOMAIN sample : IsBooleanText(sample[i]) THEN "boolean"
      ELSE "categorical"

detectColumnType(values) ==
  LET nonNullValues == SelectSeq(values, IsNonNull)
      sample == SubSeq(nonNullValues, 1, Min(SampleSize, Len(nonNullValues)))
      numericCount == Len(SelectSeq(sample, IsNumericCell))
      dateCount == Len(SelectSeq(sample, IsDateLike))
  IN  IF Len(nonNullValues) = 0 THEN "text"
      ELSE IF \A i \in DOMAIN sample : IsBooleanText(sample[i]) THEN "boolean"
      \* numericCount / sample.length >= 0.9
      ELSE IF 10 * numericCount >= 9 * Len(sample) THEN "numeric"
      \* dateCount / sample.length >= 0.8
      ELSE IF 10 * dateCount >= 8 * Len(sample) THEN "datetime"
      \* uniqueRatio < 0.5 || new Set(nonNullValues).size <= 20
      ELSE IF \/ 2 * Cardinality(UniqueTexts(sample)) < Len(sample)
              \/ Cardinality(UniqueCells(nonNullValues)) <= 20
        THEN "categorical"
      ELSE "text"

IsFiniteNumber(n) == ~ isNaN(n) /\ isFinite(n)

\* the finite numbers of a column, in row order, as integers
extractNumericValues(rows, column) ==
  LET numbers == [i \in DOMAIN rows |-> Number(Get(rows[i], column))]
      kept == SelectSeq(numbers, IsFiniteNumber)
  IN  [i \in DOMAIN kept |-> kept[i].v]

-----------------------------------------------------------------------------
(* Primitives.  A quotient is a fraction [n, d] in lowest terms with d > 0. *)
(* A quantity the code takes the square root of (a standard deviation, a    *)
(* correlation coefficient) is kept as its square, with its sign where it   *)
(* has one; the code's comparisons of such quantities are made on squares.  *)

Abs(x) == IF x < 0 THEN 0 - x ELSE x

RECURSIVE GCD(_, _)
GCD(a, b) == IF b = 0 THEN a ELSE GCD(b, a % b)

Frac(n, d) ==
  LET g == GCD(Abs(n), Abs(d))
      sgn == IF d < 0 THEN 0 - 1 ELSE 1
  IN  [n |-> sgn * (n \div g), d |-> sgn * (d \div g)]

Zero == Frac(0, 1)
One == Frac(1, 1)
Int2Frac(x) == Frac(x, 1)

\* The common factors are taken out before the products are formed, which
\* keeps the intermediate values within the integers of the result.
FAdd(a, b) ==
  LET g == GCD(a.d, b.d)
  IN  Frac(a.n * (b.d \div g) + b.n * (a.d \div g), (a.d \div g) * b.d)
FSub(a, b) == FAdd(a, [n |-> 0 - b.n, d |-> b.d])
FMul(a, b) ==
  LET x == Frac(a.n, b.d)
      y == Frac(b.n, a.d)
  IN  Frac(x.n * y.n, x.d * y.d)
\* a / b for b # 0
FDiv(a, b) == FMul(a, Frac(b.d, b.n))
\* a < b, a = an/ad and b = bn/bd, decided on the integer parts and then on
\* the remainders, so that no product is formed
RECURSIVE LessThan(_, _, _, _)
LessThan(an, ad, bn, bd) ==
  LET ai == an \div ad
      bi == bn \div bd
      ar == an % ad
      br == bn % bd
  IN  IF ai # bi THEN ai < bi
      ELSE IF br = 0 THEN FALSE
      ELSE IF ar = 0 THEN TRUE
      ELSE LessThan(bd, br, ad, ar)

FLess(a, b) == LessThan(a.n, a.d, b.n, b.d)
FLeq(a, b) == ~ FLess(b, a)
FAbs(a) == [n |-> Abs(a.n), d |-> a.d]
FMin(a, b) == IF FLeq(a, b) THEN a ELSE b
Square(a) == FMul(a, a)

RECURSIVE Sum(_)
Sum(values) == IF values = <<>> THEN 0 ELSE Head(values) + Sum(Tail(values))

RECURSIVE FSum(_)
FSum(fracs) == IF fracs = <<>> THEN Zero ELSE FAdd(Head(fracs), FSum(Tail(fracs)))

mean(values) == IF Len(values) = 0 THEN Zero ELSE Frac(Sum(values), Len(values))

\* mean of a sequence of fractions
FMean(fracs) ==
  IF Len(fracs) = 0 THEN Zero ELSE FDiv(FSum(fracs), Int2Frac(Len(fracs)))

\* [...values].sort((a, b) => a - b): a sorted copy; values is not changed
RECURSIVE SortedCopy(_)
SortedCopy(values) ==
  IF values = <<>> THEN <<>>
  ELSE LET m == CHOOSE i \in DOMAIN values :
                  \A j \in DOMAIN values : values[i] <= values[j]
           rest == [j \in 1..(Len(values) - 1) |->
                      IF j < m THEN values[j] ELSE values[j + 1]]
       IN  <<values[m]>> \o SortedCopy(rest)

median(values) ==
  LET sorted == SortedCopy(values)
      mid == Len(sorted) \div 2
  IN  IF Len(values) = 0 THEN Zero
      ELSE IF Len(sorted) % 2 # 0 THEN Int2Frac(sorted[mid + 1])
      ELSE Frac(sorted[mid] + sorted[mid + 1], 2)

CountOf(values, v) == Cardinality({ i \in DOMAIN values : values[i] = v })

\* the first value, in order of first occurrence, with the largest count;
\* values is not empty
mode(values) ==
  LET first == CHOOSE i \in DOMAIN values :
                 /\ \A j \in DOMAIN values :
                      CountOf(values, values[j]) <= CountOf(values, values[i])
                 /\ \A j \in 1..(i - 1) :
                      CountOf(values, values[j]) < CountOf(values, values[i])
  IN  values[first]

\* the square of standardDeviation(values): the population variance
variance(values) ==
  LET n == Len(values)
      s == Sum(values)
      sq == Sum([i \in DOMAIN values |-> values[i] * values[i]])
  IN  IF n < 2 THEN Zero ELSE Frac(n * sq - s * s, n * n)

\* percentile(values, p) for p = pNum / pDen * 100
percentile(values, pNum, pDen) ==
  LET sorted == SortedCopy(values)
      index == Frac(pNum * (Len(sorted) - 1), pDen)
      lower == index.n \div index.d
      upper == IF index.d = 1 THEN lower ELSE lower + 1
  IN  IF Len(values) = 0 THEN Zero
      ELSE IF lower = upper THEN Int2Frac(sorted[lower + 1])
      ELSE FAdd(FMul(Int2Frac(sorted[lower + 1]), FSub(Int2Frac(upper), index)),
                FMul(Int2Frac(sorted[upper + 1]), FSub(index, Int2Frac(lower))))

quartiles(values) ==
  [q1 |-> percentile(values, 1, 4),
   q2 |-> percentile(values, 2, 4),
   q3 |-> percentile(values, 3, 4)]

\* The coefficient of determination sAB^2 / (sAA sBB) is kept as its two
\* factors sAB/sAA and sAB/sBB, which have the sign of sAB: for a series of
\* 30 values of hundreds the product in lowest terms is beyond 2^31.
R2Of(sAB, sAA, sBB) == [p |-> Frac(sAB, sAA), q |-> Frac(sAB, sBB)]
R2Zero == R2Of(0, 1, 1)
R2One == R2Of(1, 1, 1)
\* r2 < f and f < r2 for a fraction f
R2Less(r2, f) ==
  IF r2.p.n = 0 THEN f.n > 0 ELSE FLess(FAbs(r2.q), FDiv(f, FAbs(r2.p)))
R2Above(r2, f) ==
  IF r2.p.n = 0 THEN f.n < 0 ELSE FLess(FDiv(f, FAbs(r2.p)), FAbs(r2.q))
\* Math.min(Math.abs(r2), 1): r2 is not negative
R2Strength(r2) == IF R2Above(r2, One) THEN R2One ELSE r2

\* ordinary least squares of the values against their index 0..n-1.  With
\* A[i] = 2(i - xMean) and B[i] = n(values[i] - yMean), both integers:
\* numerator = sum(A*B)/2n, denominator = sum(A*A)/4, ssTotal = sum(B*B)/n^2
\* and ssResidual = ssTotal - numerator^2/denominator.
linearRegression(values) ==
  LET n == Len(values)
      s == Sum(values)
      A == [i \in 1..n |-> 2 * (i - 1) - (n - 1)]
      B == [i \in 1..n |-> n * values[i] - s]
      sAB == Sum([i \in 1..n |-> A[i] * B[i]])
      sAA == Sum([i \in 1..n |-> A[i] * A[i]])
      sBB == Sum([i \in 1..n |-> B[i] * B[i]])
      slope == IF sAA # 0 THEN Frac(2 * sAB, n * sAA) ELSE Zero
      yMean == Frac(s, n)
      intercept == FSub(yMean, FMul(slope, Frac(n - 1, 2)))
      r2 == IF sBB # 0 THEN R2Of(sAB, sAA, sBB) ELSE R2Zero
  IN  IF n < 2
        THEN [slope |-> Zero,
              intercept |-> IF n = 1 THEN Int2Frac(values[1]) ELSE Zero,
              r2 |-> R2Zero]
        ELSE [slope |-> slope, intercept |-> intercept, r2 |-> r2]

\* movingAverage(values, window): the means of the windows, as fractions
movingAverage(values, window) ==
  IF Len(values) < window
    THEN [i \in DOMAIN values |-> Int2Frac(values[i])]
    ELSE [i \in 1..(Len(values) - window + 1) |->
            mean(SubSeq(values, i, i + window - 1))]

\* items.sort((a, b) => key(b) - key(a)): the items in descending order of
\* their keys (keys[i] is the key of items[i]), equal keys in their order
RECURSIVE SortDescByKeys(_, _)
SortDescByKeys(items, keys) ==
  IF items = <<>> THEN <<>>
  ELSE LET m == CHOOSE i \in DOMAIN items :
                  /\ \A j \in DOMAIN items : FLeq(keys[j], keys[i])
                  /\ \A j \in 1..(i - 1) : FLess(keys[j], keys[i])
           Drop(q) == [j \in 1..(Len(q) - 1) |-> IF j < m THEN q[j] ELSE q[j + 1]]
       IN  <<items[m]>> \o SortDescByKeys(Drop(items), Drop(keys))

\* Array.prototype.slice(0, n)
Take(s, n) == SubSeq(s, 1, Min(n, Len(s)))

\* Math.round of a fraction that is not negative
RoundFrac(a) == (2 * a.n + a.d) \div (2 * a.d)

-----------------------------------------------------------------------------
(* Profiler                                                                *)

\* The ColumnProfile of a column.  hasStats tells whether min, max, mean,
\* median, mode and stdDev are set; stdDev2 is the square of stdDev.  The
\* mode of a categorical or text column is modeText.  topValues and the
\* min/max of a datetime column are not part of the model.
ColumnProfileOf(columnName, values, nonNullValues, type, numericValues) ==
  LET sorted == SortedCopy(numericValues)
      hasStats == type = "numeric" /\ Len(numericValues) > 0
      stringValues == [i \in DOMAIN nonNullValues |-> String(nonNullValues[i])]
  IN  [name |-> columnName,
       type |-> type,
       nullCount |-> Len(values) - Len(nonNullValues),
       totalCount |-> Len(values),
       uniqueCount |-> Cardinality(UniqueTexts(nonNullValues)),
       hasStats |-> hasStats,
       min |-> IF hasStats THEN sorted[1] ELSE 0,
       max |-> IF hasStats THEN sorted[Len(sorted)] ELSE 0,
       mean |-> IF hasStats THEN mean(numericValues) ELSE Zero,
       median |-> IF hasStats THEN median(numericValues) ELSE Zero,
       mode |-> IF hasStats THEN mode(numericValues) ELSE 0,
       stdDev2 |-> IF hasStats THEN variance(numericValues) ELSE Zero,
       modeText |-> IF type \in {"categorical", "text"} /\ Len(stringValues) > 0
                      THEN mode(stringValues) ELSE ""]

profileColumn(rows, columnName) ==
  LET values == ColumnValues(rows, columnName)
  IN  ColumnProfileOf(columnName, values, SelectSeq(values, IsNonNull),
                      detectColumnType(values),
                      extractNumericValues(rows, columnName))

\* The DatasetProfile with Math.floor in the place of Math.round
DatasetProfileOf_floor(rows, columnNames, columns) ==
  LET totalCells == Len(rows) * Len(columnNames)
      nullCells == Sum([i \in DOMAIN columns |-> columns[i].nullCount])
  IN  [rowCount |-> Len(rows),
       columnCount |-> Len(columnNames),
       columns |-> columns,
       completeness |-> IF totalCells > 0
                          THEN Frac(((totalCells - nullCells) * 10000) \div totalCells, 100)
                          ELSE Zero]

\* The DatasetProfile; completeness is Math.round(completeness * 100) / 100.
\* memoryEstimate is not part of the model.
DatasetProfileOf(rows, columnNames, columns) ==
  LET totalCells == Len(rows) * Len(columnNames)
      nullCells == Sum([i \in DOMAIN columns |-> columns[i].nullCount])
      completeness == IF totalCells > 0
                        THEN Frac((totalCells - nullCells) * 100, totalCells)
                        ELSE Zero
  IN  [rowCount |-> Len(rows),
       columnCount |-> Len(columnNames),
       columns |-> columns,
       completeness |-> Frac(RoundFrac(FMul(completeness, Int2Frac(100))), 100)]

\* profileDataset with a columns array that outlives the call: the columns of
\* a call are appended to those of the profile kept from an earlier call
profileDataset_accumulating(rows) ==
  LET columnNames == Keys(rows[1])
      fresh == IF Len(rows) = 0
                 THEN [rowCount |-> 0, columnCount |-> 0, columns |-> <<>>,
                       completeness |-> Zero]
                 ELSE DatasetProfileOf(rows, columnNames,
                                       [i \in DOMAIN columnNames |->
                                          profileColumn(rows, columnNames[i])])
  IN  IF earlier # NoCall /\ earlier.call.op = "profileDataset"
        THEN [fresh EXCEPT !.columns = earlier.response.value.columns \o @]
        ELSE fresh

profileDataset(rows) ==
  LET columnNames == Keys(rows[1])
  IN  IF Len(rows) = 0
        THEN [rowCount |-> 0, columnCount |-> 0, columns |-> <<>>,
              completeness |-> Zero]
        ELSE DatasetProfileOf(rows, columnNames,
                              [i \in DOMAIN columnNames |->
                                 profileColumn(rows, columnNames[i])])

Names(columns) == [i \in DOMAIN columns |-> columns[i].name]

getColumnsByType(profile, type) ==
  SelectSeq(profile.columns, LAMBDA c : c.type = type)

\* c.nullCount / c.totalCount > threshold, with the threshold a fraction
findHighNullColumns(profile, threshold) ==
  SelectSeq(profile.columns,
            LAMBDA c : c.totalCount > 0 /\
                       FLess(threshold, Frac(c.nullCount, c.totalCount)))

\* uniqueRatio > 0.95 && c.totalCount > 10
findPotentialIdColumns(profile) ==
  SelectSeq(profile.columns,
            LAMBDA c : 100 * c.uniqueCount > 95 * c.totalCount /\ c.totalCount > 10)

-----------------------------------------------------------------------------
(* Trend analyzer                                                          *)

\* mean(values) || 1
MeanOrOne(values) == IF mean(values).n = 0 THEN One ELSE mean(values)

\* the direction when a high deviation alone makes a series volatile
TrendDirectionOf_deviationOnly(values, reg) ==
  [direction |->
     IF mean(values).n # 0 /\ FLess(FMul(Frac(1, 4), Square(mean(values))), variance(values))
       THEN "volatile"
     ELSE IF FLess(FAbs(FDiv(reg.slope, MeanOrOne(values))), Frac(1, 100)) THEN "stable"
     ELSE IF FDiv(reg.slope, MeanOrOne(values)).n > 0 THEN "increasing"
     ELSE "decreasing",
   strength |-> R2Strength(reg.r2)]

TrendDirectionOf(values, reg) ==
  LET normalizedSlope == FDiv(reg.slope, MeanOrOne(values))
      byslope == IF FLess(FAbs(normalizedSlope), Frac(1, 100)) THEN "stable"
                 ELSE IF normalizedSlope.n > 0 THEN "increasing"
                 ELSE "decreasing"
      avg == mean(values)
      \* cv > 0.5, cv = std / |avg| when avg # 0 and 0 otherwise
      cvAboveHalf == avg.n # 0 /\ FLess(FMul(Frac(1, 4), Square(avg)), variance(values))
      volatile == cvAboveHalf /\ R2Less(reg.r2, Frac(3, 10))
  IN  [direction |-> IF volatile THEN "volatile" ELSE byslope,
       strength |-> R2Strength(reg.r2)]

detectTrendDirection(values) ==
  IF Len(values) < 3
    THEN [direction |-> "stable", strength |-> R2Zero]
    ELSE TrendDirectionOf(values, linearRegression(values))

\* the candidate periods of detectSeasonality, in the order they are tried
SeasonalPeriods == <<7, 12, 4, 24, 30>>

\* autocorr > 0.5 at a lag, on the values scaled by their count
AutocorrelatedAt(values, period) ==
  LET n == Len(values)
      s == Sum(values)
      D == [i \in 1..n |-> n * values[i] - s]
      correlation == Sum([i \in 1..(n - period) |-> D[i + period] * D[i]])
      var == Sum([i \in 1..n |-> D[i] * D[i]])
  IN  var # 0 /\ 2 * correlation > var

RECURSIVE firstSeasonalPeriod(_, _)
firstSeasonalPeriod(values, k) ==
  IF k > Len(SeasonalPeriods) THEN 0
  ELSE IF Len(values) >= 2 * SeasonalPeriods[k] /\
          AutocorrelatedAt(values, SeasonalPeriods[k])
    THEN SeasonalPeriods[k]
  ELSE firstSeasonalPeriod(values, k + 1)

\* period is 0 when there is none
detectSeasonality(values) ==
  LET period == firstSeasonalPeriod(values, 1)
  IN  IF Len(values) < 12 THEN [seasonal |-> FALSE, period |-> 0]
      ELSE [seasonal |-> period # 0, period |-> period]

\* Math.max(3, Math.floor(values.length / 10))
TrendWindow(values) == Max(3, Len(values) \div 10)

\* the shift at index i (from 0), if there is one: magnitude2 is the square
\* of changeMagnitude
ShiftOf(i, diff, beforeVar) ==
  LET magnitude2 == FDiv(Square(diff), beforeVar)
  IN  IF beforeVar.n # 0 /\ FLess(Int2Frac(4), magnitude2)
        THEN << [index |-> i, magnitude2 |-> magnitude2] >>
        ELSE <<>>

ShiftAt(values, i, windowSize) ==
  LET before == SubSeq(values, i - windowSize + 1, i)
      after == SubSeq(values, i + 1, i + windowSize)
  IN  ShiftOf(i, FSub(mean(after), mean(before)), variance(before))

RECURSIVE shiftsFrom(_, _, _)
shiftsFrom(values, i, windowSize) ==
  IF i >= Len(values) - windowSize THEN <<>>
  ELSE ShiftAt(values, i, windowSize) \o shiftsFrom(values, i + 1, windowSize)

\* shifts.sort((a, b) => b.changeMagnitude - a.changeMagnitude).slice(0, 5)
LargestShifts(shifts) ==
  Take(SortDescByKeys(shifts, [i \in DOMAIN shifts |-> shifts[i].magnitude2]), 5)

detectShifts(values) ==
  IF Len(values) < 5 THEN <<>>
  ELSE LargestShifts(shiftsFrom(values, TrendWindow(values), TrendWindow(values)))

\* The TrendResult of a column; of the explanation the model keeps whether
\* it is the one of insufficient data points.
TrendResultOf(columnName, values, dir, season) ==
  [column |-> columnName,
   insufficient |-> FALSE,
   direction |-> dir.direction,
   strength |-> dir.strength,
   movingAverages |-> movingAverage(values, TrendWindow(values)),
   seasonality |-> season.seasonal,
   seasonalPeriod |-> season.period,
   shifts |-> detectShifts(values)]

analyzeTrend(rows, columnName) ==
  LET values == extractNumericValues(rows, columnName)
  IN  IF Len(values) < 3
        THEN [column |-> columnName, insufficient |-> TRUE,
              direction |-> "stable", strength |-> R2Zero,
              movingAverages |-> [i \in DOMAIN values |-> Int2Frac(values[i])],
              seasonality |-> FALSE, seasonalPeriod |-> 0, shifts |-> <<>>]
        ELSE TrendResultOf(columnName, values, detectTrendDirection(values),
                           detectSeasonality(values))

\* the results of F for the columns of the first row that hold at least
\* minValues numbers, in the order of the keys
RECURSIVE ColumnsWithValues(_, _, _)
ColumnsWithValues(rows, columnNames, minValues) ==
  IF columnNames = <<>> THEN <<>>
  ELSE (IF Len(extractNumericValues(rows, Head(columnNames))) >= minValues
          THEN <<Head(columnNames)>> ELSE <<>>)
       \o ColumnsWithValues(rows, Tail(columnNames), minValues)

analyzeAllTrends(rows) ==
  LET columns == ColumnsWithValues(rows, Keys(rows[1]), 3)
  IN  IF Len(rows) = 0 THEN <<>>
      ELSE [i \in DOMAIN columns |-> analyzeTrend(rows, columns[i])]

-----------------------------------------------------------------------------
(* Forecaster                                                              *)

\* What a call gives back: the value it returns, or the error it throws
Returned(value) == [status |-> "returned", value |-> value]
Thrown(error) == [status |-> "thrown", error |-> error]

\* the default of the periods parameter of forecast and forecastAll
DefaultPeriods == 7

\* A bound of a confidence interval is kept as its offset from the predicted
\* value: sgn * sqrt(sq).  The predicted value is not part of the model.
Offset(sgn, sq) == [sgn |-> sgn, sq |-> sq]

\* { period: i, value, confidence: { lower: value - u, upper: value + u } }
\* for u = sqrt(uncertainty2)
PredictionPoint(i, uncertainty2) ==
  [period |-> i,
   confidence |-> [lower |-> Offset(0 - 1, uncertainty2),
                   upper |-> Offset(1, uncertainty2)]]

\* the loop for (let i = 1; i <= periods; i++): one point per period
PredictionPoints(periods, uncertainty2) ==
  [i \in 1..periods |-> PredictionPoint(i, uncertainty2[i])]

\* the loop of a forecaster that stops one period early
PredictionPointsShort(periods, uncertainty2) ==
  [i \in 1..(periods - 1) |-> PredictionPoint(i, uncertainty2[i])]

\* the square of confidenceMultiplier = 1.96
Multiplier2 == Frac(2401, 625)

\* the square of uncertainty * (1 + i * 0.1), uncertainty being
\* std * confidenceMultiplier * Math.sqrt(1 + (1 / values.length))
LinearUncertainty2(values, i) ==
  FMul(FMul(variance(values), Multiplier2),
       FMul(Frac(Len(values) + 1, Len(values)), Square(Frac(10 + i, 10))))

\* the square of std * 1.96 * Math.sqrt(i)
ExponentialUncertainty2(values, i) ==
  FMul(FMul(variance(values), Multiplier2), Int2Frac(i))

\* the square of std * 1.5 * Math.sqrt(i / window), window being
\* Math.max(3, Math.floor(values.length / 5))
RollingUncertainty2(values, i) ==
  FMul(FMul(variance(values), Frac(9, 4)), Frac(i, Max(3, Len(values) \div 5)))

\* linearForecast with the loop for (let i = 1; i < periods; i++)
linearForecast_short(values, periods) ==
  Returned([predictions |->
              PredictionPointsShort(periods,
                [i \in 1..periods |-> LinearUncertainty2(values, i)])])

\* result[i] = alpha values[i] + (1 - alpha) result[i - 1] with the default
\* alpha = 0.3, as the integer result[i] * 10^(i - 1) (i counted from 1)
RECURSIVE exponentialSmoothing(_)
exponentialSmoothing(values) ==
  IF Len(values) <= 1 THEN values
  ELSE LET n == Len(values)
           before == exponentialSmoothing(SubSeq(values, 1, n - 1))
       IN  Append(before, 3 * values[n] * 10 ^ (n - 2) + 7 * before[n - 1])

\* linearForecast reads no element of predictions
linearForecast(values, periods) ==
  Returned([predictions |->
              PredictionPoints(periods,
                [i \in 1..periods |-> LinearUncertainty2(values, i)])])

\* exponentialForecast reads predictions[periods - 1].value unless
\* lastSmoothed is 0
exponentialForecast(values, periods) ==
  LET smoothed == exponentialSmoothing(values)
      lastSmoothed == smoothed[Len(smoothed)]
      predictions ==
        PredictionPoints(periods,
          [i \in 1..periods |-> ExponentialUncertainty2(values, i)])
  IN  IF lastSmoothed # 0 /\ periods - 1 \notin 0..(Len(predictions) - 1)
        THEN Thrown("TypeError")
        ELSE Returned([predictions |-> predictions])

\* rollingForecast reads predictions[0].value and predictions[periods - 1].value
rollingForecast(values, periods) ==
  LET predictions ==
        PredictionPoints(periods,
          [i \in 1..periods |-> RollingUncertainty2(values, i)])
  IN  IF Len(predictions) > 0 /\ periods - 1 \in 0..(Len(predictions) - 1)
        THEN Returned([predictions |-> predictions])
        ELSE Thrown("TypeError")

\* the method when the coefficient of variation is tested before r2
selectedMethod_cvFirst(values, method) ==
  IF method # "auto" THEN method
  ELSE IF MeanOrOne(values).n > 0 /\
          FLess(FMul(Frac(9, 100), Square(MeanOrOne(values))), variance(values))
    THEN "exponential"
  ELSE IF R2Above(linearRegression(values).r2, Frac(7, 10)) THEN "linear"
  ELSE "rolling"

\* the method forecast uses: the one asked for, or for auto the one chosen
\* from r2 and cv = standardDeviation(values) / (mean(values) || 1)
selectedMethod(values, method) ==
  LET reg == linearRegression(values)
      m == MeanOrOne(values)
      \* cv > 0.3: the mean is positive and the variance above (0.3 mean)^2
      cvAbove == m.n > 0 /\ FLess(FMul(Frac(9, 100), FMul(m, m)), variance(values))
  IN  IF method # "auto" THEN method
      ELSE IF R2Above(reg.r2, Frac(7, 10)) THEN "linear"
      ELSE IF cvAbove THEN "exponential"
      ELSE "rolling"

\* The ForecastResult of a column, or the TypeError of reading .value of an
\* element that predictions does not hold.  Of the trend text the model
\* keeps whether it is 'insufficient data' (sufficient = FALSE); the
\* interpretation is not part of the model.
ForecastResultOf(columnName, values, selected, result) ==
  IF result.status = "thrown" THEN result
  \* lastActual !== 0 ? finalPredicted.value ..., where finalPredicted is
  \* predictions[predictions.length - 1]
  ELSE IF values[Len(values)] # 0 /\ Len(result.value.predictions) = 0
    THEN Thrown("TypeError")
  ELSE Returned([column |-> columnName, method |-> selected,
                 predictions |-> result.value.predictions,
                 sufficient |-> TRUE])

\* the forecast of five values or more by the selected method
ForecastBy(columnName, values, periods, selected) ==
  ForecastResultOf(columnName, values, selected,
    CASE selected = "linear" -> linearForecast(values, periods)
      [] selected = "exponential" -> exponentialForecast(values, periods)
      [] selected = "rolling" -> rollingForecast(values, periods)
      [] OTHER -> linearForecast(values, periods))

forecast(rows, columnName, periods, method) ==
  LET values == extractNumericValues(rows, columnName)
  IN  IF Len(values) < 5
        THEN Returned([column |-> columnName, method |-> "linear",
                       predictions |-> <<>>, sufficient |-> FALSE])
        ELSE ForecastBy(columnName, values, periods, selectedMethod(values, method))

\* forecastAll calls forecast with the default method and its own periods
ForecastsOf(results) ==
  IF \E i \in DOMAIN results : results[i].status = "thrown"
    THEN Thrown("TypeError")
    ELSE Returned([i \in DOMAIN results |-> results[i].value])

forecastAll(rows, periods) ==
  LET columns == ColumnsWithValues(rows, Keys(rows[1]), 5)
  IN  IF Len(rows) = 0 THEN Returned(<<>>)
      ELSE ForecastsOf([i \in DOMAIN columns |->
                          forecast(rows, columns[i], periods, "auto")])

-----------------------------------------------------------------------------
(* Anomaly detector.  An Anomaly carries score2, the square of its score;  *)
(* the expected range is not part of the model.                            *)

\* the anomalies of the indices i..n-1 (from 0) that Flag gives
RECURSIVE CollectFrom(_, _, _)
CollectFrom(i, n, flagged) ==
  IF i >= n THEN <<>> ELSE flagged[i] \o CollectFrom(i + 1, n, flagged)

detectZScoreAnomalies(values, columnName) ==
  LET avg == mean(values)
      var == variance(values)
      \* z * z, z = (value - avg) / std
      z2(v) == FDiv(FMul(FSub(Int2Frac(v), avg), FSub(Int2Frac(v), avg)), var)
      flagged == [i \in 0..(Len(values) - 1) |->
                    \* Math.abs(z) > 3
                    IF FLess(Int2Frac(9), z2(values[i + 1]))
                      THEN << [rowIndex |-> i, column |-> columnName,
                               value |-> values[i + 1],
                               score2 |-> FMin(FDiv(z2(values[i + 1]), Int2Frac(25)), One),
                               type |-> "zscore"] >>
                      ELSE <<>>]
  IN  IF Len(values) < 10 THEN <<>>
      ELSE IF var.n = 0 THEN <<>>
      ELSE CollectFrom(0, Len(values), flagged)

\* the loop of detectIQRAnomalies when a value on a bound is flagged too
IQRAnomaliesOutside_inclusive(values, columnName, lowerBound, upperBound, iqr) ==
  CollectFrom(0, Len(values),
              [i \in 0..(Len(values) - 1) |->
                 IF \/ FLeq(Int2Frac(values[i + 1]), lowerBound)
                    \/ FLeq(upperBound, Int2Frac(values[i + 1]))
                   THEN << [rowIndex |-> i, column |-> columnName,
                            value |-> values[i + 1], score2 |-> Zero,
                            type |-> "iqr"] >>
                   ELSE <<>>])

\* the anomalies of the loop of detectIQRAnomalies, given the bounds and the
\* interquartile range computed before it
IQRAnomaliesOutside(values, columnName, lowerBound, upperBound, iqr) ==
  LET distance(v) == IF FLess(Int2Frac(v), lowerBound)
                       THEN FSub(lowerBound, Int2Frac(v))
                       ELSE FSub(Int2Frac(v), upperBound)
      \* Math.min(distance / (iqr || 1), 1)
      score(v) == FMin(FDiv(distance(v), IF iqr.n = 0 THEN One ELSE iqr), One)
      flagged == [i \in 0..(Len(values) - 1) |->
                    IF \/ FLess(Int2Frac(values[i + 1]), lowerBound)
                       \/ FLess(upperBound, Int2Frac(values[i + 1]))
                      THEN << [rowIndex |-> i, column |-> columnName,
                               value |-> values[i + 1],
                               score2 |-> Square(score(values[i + 1])),
                               type |-> "iqr"] >>
                      ELSE <<>>]
  IN  CollectFrom(0, Len(values), flagged)

IQRAnomaliesBetween(values, columnName, q) ==
  LET iqr == FSub(q.q3, q.q1)
  IN  IQRAnomaliesOutside(values, columnName,
                          FSub(q.q1, FMul(Frac(3, 2), iqr)),
                          FAdd(q.q3, FMul(Frac(3, 2), iqr)), iqr)

detectIQRAnomalies(values, columnName) ==
  IF Len(values) < 10 THEN <<>>
  ELSE IQRAnomaliesBetween(values, columnName, quartiles(values))

\* the window of detectRollingAnomalies
RollingWindow == 5

detectRollingAnomalies(values, columnName) ==
  LET window(i) == SubSeq(values, i - RollingWindow + 1, i)
      windowMean(i) == mean(window(i))
      windowVar(i) == variance(window(i))
      \* deviation * deviation, deviation = |value - windowMean| / windowStd
      deviation2(i) ==
        FDiv(FMul(FSub(Int2Frac(values[i + 1]), windowMean(i)),
                  FSub(Int2Frac(values[i + 1]), windowMean(i))), windowVar(i))
      flagged == [i \in RollingWindow..(Len(values) - 1) |->
                    IF windowVar(i).n = 0 THEN <<>>
                    \* deviation > 2
                    ELSE IF FLess(Int2Frac(4), deviation2(i))
                      THEN << [rowIndex |-> i, column |-> columnName,
                               value |-> values[i + 1],
                               score2 |-> FMin(FDiv(deviation2(i), Int2Frac(25)), One),
                               type |-> IF FLess(windowMean(i), Int2Frac(values[i + 1]))
                                          THEN "spike" ELSE "drop"] >>
                      ELSE <<>>]
  IN  IF Len(values) < RollingWindow + 2 THEN <<>>
      ELSE CollectFrom(RollingWindow, Len(values), flagged)

\* uniqueMap when an anomaly of an index already in it is never put
RECURSIVE MergeByRow_keepFirst(_, _)
MergeByRow_keepFirst(kept, all) ==
  IF all = <<>> THEN kept
  ELSE IF \E i \in DOMAIN kept : kept[i].rowIndex = Head(all).rowIndex
    THEN MergeByRow_keepFirst(kept, Tail(all))
  ELSE MergeByRow_keepFirst(Append(kept, Head(all)), Tail(all))

\* uniqueMap after the anomalies of all were put into it: one anomaly per
\* rowIndex, in the order the indices were first seen, a later anomaly of
\* an index replacing the one kept only when its score is higher
RECURSIVE MergeByRow(_, _)
MergeByRow(kept, all) ==
  IF all = <<>> THEN kept
  ELSE LET a == Head(all)
           same == { i \in DOMAIN kept : kept[i].rowIndex = a.rowIndex }
           at == CHOOSE i \in same : TRUE
       IN  IF same = {} THEN MergeByRow(Append(kept, a), Tail(all))
           ELSE IF FLess(kept[at].score2, a.score2)
             THEN MergeByRow([kept EXCEPT ![at] = a], Tail(all))
           ELSE MergeByRow(kept, Tail(all))

SortByScore(anomalies) ==
  SortDescByKeys(anomalies, [i \in DOMAIN anomalies |-> anomalies[i].score2])

\* detectColumnAnomalies with the rolling detector alone
detectColumnAnomalies_rollingOnly(rows, columnName) ==
  IF Len(extractNumericValues(rows, columnName)) < 10 THEN <<>>
  ELSE SortByScore(detectRollingAnomalies(extractNumericValues(rows, columnName),
                                          columnName))

detectColumnAnomalies(rows, columnName) ==
  LET values == extractNumericValues(rows, columnName)
      allAnomalies == detectZScoreAnomalies(values, columnName)
                      \o detectIQRAnomalies(values, columnName)
                      \o detectRollingAnomalies(values, columnName)
  IN  IF Len(values) < 10 THEN <<>>
      ELSE SortByScore(MergeByRow(<<>>, allAnomalies))

\* the most anomalies detectAllAnomalies returns
MaxAnomalies == 100

RECURSIVE Concat(_)
Concat(seqs) == IF seqs = <<>> THEN <<>> ELSE Head(seqs) \o Concat(Tail(seqs))

\* perColumn[i] are the anomalies of columns[i]; a column with anomalies is
\* an affected column
AnomaliesPerColumn(rows, columns, perColumn) ==
  LET sortedAnomalies == Take(SortByScore(Concat(perColumn)), MaxAnomalies)
  IN  [anomalies |-> sortedAnomalies,
       anomalyScore |-> IF Len(sortedAnomalies) > 0
                          THEN FMin(Frac(Len(sortedAnomalies), Len(rows)), One)
                          ELSE Zero,
       affectedColumns |->
         Concat([i \in DOMAIN columns |->
                   IF perColumn[i] # <<>> THEN <<columns[i]>> ELSE <<>>])]

\* The AnomalyResult of a dataset; the explanation is not part of the model.
detectAllAnomalies(rows) ==
  LET columns == ColumnsWithValues(rows, Keys(rows[1]), 10)
  IN  IF Len(rows) = 0
        THEN [anomalies |-> <<>>, anomalyScore |-> Zero, affectedColumns |-> <<>>]
        ELSE AnomaliesPerColumn(rows, columns,
                                [i \in DOMAIN columns |->
                                   detectColumnAnomalies(rows, columns[i])])

AnomalySummaryOf(anomalies) ==
  LET \* the anomalies are sorted: the first has the largest score
      high == Len(anomalies) > 0 /\ FLess(Frac(64, 100), anomalies[1].score2)
      medium == Len(anomalies) > 0 /\ FLess(Frac(25, 100), anomalies[1].score2)
  IN  [count |-> Len(anomalies),
       severity |-> IF high THEN "high" ELSE IF medium THEN "medium"
                    ELSE IF Len(anomalies) > 0 THEN "low" ELSE "none",
       topAnomalies |-> Take(anomalies, 5)]

getColumnAnomalySummary(rows, columnName) ==
  AnomalySummaryOf(detectColumnAnomalies(rows, columnName))

-----------------------------------------------------------------------------
(* Correlation analyzer.  A coefficient is kept as its sign and its square *)
(* (the coefficient itself is a square root).                              *)

Coef(sgn, sq) == [sgn |-> IF sq.n = 0 THEN 0 ELSE sgn, sq |-> sq]
CoefZero == Coef(0, Zero)
CoefOne == Coef(1, One)

Sign(x) == IF x > 0 THEN 1 ELSE IF x < 0 THEN 0 - 1 ELSE 0

\* over the first n = min(|x|, |y|) elements, on X[i] = n(x[i] - xMean) and
\* Y[i] = n(y[i] - yMean): numerator / sqrt(xDenom * yDenom)
pearsonCorrelation(x, y) ==
  LET n == Min(Len(x), Len(y))
      sx == Sum(SubSeq(x, 1, n))
      sy == Sum(SubSeq(y, 1, n))
      X == [i \in 1..n |-> n * x[i] - sx]
      Y == [i \in 1..n |-> n * y[i] - sy]
      sXY == Sum([i \in 1..n |-> X[i] * Y[i]])
      sXX == Sum([i \in 1..n |-> X[i] * X[i]])
      sYY == Sum([i \in 1..n |-> Y[i] * Y[i]])
  IN  IF n < 2 THEN CoefZero
      ELSE IF sXX = 0 \/ sYY = 0 THEN CoefZero
      ELSE Coef(Sign(sXY), FMul(Frac(sXY, sXX), Frac(sXY, sYY)))

\* [...new Set(x)]: the distinct elements in the order they first occur
RECURSIVE Distinct(_)
Distinct(x) ==
  IF x = <<>> THEN <<>>
  ELSE LET front == Distinct(SubSeq(x, 1, Len(x) - 1))
           last == x[Len(x)]
       IN  IF \E i \in DOMAIN front : front[i] = last THEN front
           ELSE Append(front, last)

cramersV(x, y) ==
  LET n == Min(Len(x), Len(y))
      xCategories == Distinct(x)
      yCategories == Distinct(y)
      contingency(a, b) ==
        Cardinality({ i \in 1..n : x[i] = xCategories[a] /\ y[i] = yCategories[b] })
      rowSum(a) == Sum([b \in DOMAIN yCategories |-> contingency(a, b)])
      colSum(b) == Sum([a \in DOMAIN xCategories |-> contingency(a, b)])
      \* (observed - expected)^2 / expected, expected = rowSum * colSum / n
      term(a, b) ==
        IF rowSum(a) * colSum(b) > 0
          THEN Frac((n * contingency(a, b) - rowSum(a) * colSum(b))
                      * (n * contingency(a, b) - rowSum(a) * colSum(b)),
                    n * rowSum(a) * colSum(b))
          ELSE Zero
      chiSquared ==
        FSum([a \in DOMAIN xCategories |->
                FSum([b \in DOMAIN yCategories |-> term(a, b)])])
      k == Min(Len(xCategories), Len(yCategories))
  IN  IF n < 2 THEN CoefZero
      ELSE IF k > 1 THEN Coef(1, FDiv(chiSquared, Int2Frac(n * (k - 1))))
      ELSE CoefZero

getCorrelationStrength(coefficient) ==
  IF FLeq(Frac(49, 100), coefficient.sq) THEN "strong"
  ELSE IF FLeq(Frac(16, 100), coefficient.sq) THEN "moderate"
  ELSE IF FLeq(Frac(4, 100), coefficient.sq) THEN "weak"
  ELSE "none"

\* the columns of the first row whose inferred type is one of types
ColumnsOfType(rows, types) ==
  SelectSeq(Keys(rows[1]), LAMBDA c : detectColumnType(ColumnValues(rows, c)) \in types)

IndexOf(s, e) == CHOOSE i \in DOMAIN s : s[i] = e

\* The matrix when the entry of a column with itself is computed like the
\* others
MatrixOver_noDiagonal(rows, numericColumns) ==
  [columns |-> numericColumns,
   at |-> [a \in SeqRange(numericColumns) |->
             [b \in SeqRange(numericColumns) |->
                pearsonCorrelation(extractNumericValues(rows, a),
                                   extractNumericValues(rows, b))]]]

\* The matrix over the numeric columns: columns are its keys in their
\* order, at[a][b] the entry.  An entry whose mirror was computed before is
\* a copy of the mirror.
MatrixOver(rows, numericColumns) ==
  LET entry(col1, col2) ==
        IF col1 = col2 THEN CoefOne
        ELSE IF IndexOf(numericColumns, col2) < IndexOf(numericColumns, col1)
          THEN pearsonCorrelation(extractNumericValues(rows, col2),
                                  extractNumericValues(rows, col1))
        ELSE pearsonCorrelation(extractNumericValues(rows, col1),
                                extractNumericValues(rows, col2))
  IN  [columns |-> numericColumns,
       at |-> [a \in SeqRange(numericColumns) |->
                 [b \in SeqRange(numericColumns) |-> entry(a, b)]]]

calculateCorrelationMatrix(rows) ==
  IF Len(rows) = 0 THEN [columns |-> <<>>, at |-> <<>>]
  ELSE MatrixOver(rows, ColumnsOfType(rows, {"numeric"}))

\* the pairs (i, j), i < j, of 1..n in the order of the two nested loops
RECURSIVE PairsFrom(_, _, _)
PairsFrom(i, j, n) ==
  IF i >= n THEN <<>>
  ELSE IF j > n THEN PairsFrom(i + 1, i + 2, n)
  ELSE << <<i, j>> >> \o PairsFrom(i, j + 1, n)

SortByCoefficient(pairs) ==
  SortDescByKeys(pairs, [i \in DOMAIN pairs |-> pairs[i].coefficient.sq])

findStrongestCorrelations(matrix, limit) ==
  LET ij == PairsFrom(1, 2, Len(matrix.columns))
      pairs == [p \in DOMAIN ij |->
                  LET col1 == matrix.columns[ij[p][1]]
                      col2 == matrix.columns[ij[p][2]]
                  IN  [column1 |-> col1, column2 |-> col2,
                       coefficient |-> matrix.at[col1][col2],
                       type |-> "pearson",
                       strength |-> getCorrelationStrength(matrix.at[col1][col2])]]
  IN  Take(SortByCoefficient(SelectSeq(pairs, LAMBDA p : p.strength # "none")), limit)

\* String(row[col] ?? '') for every row
ColumnTexts(rows, column) ==
  [i \in DOMAIN rows |->
     LET cell == Get(rows[i], column)
     IN  IF cell.k \in {"null", "undefined"} THEN "" ELSE String(cell)]

CramersPair(col1, col2, coefficient) ==
  [column1 |-> col1, column2 |-> col2, coefficient |-> coefficient,
   type |-> "cramers_v", strength |-> getCorrelationStrength(coefficient)]

CategoricalPairsOver(rows, categoricalColumns) ==
  LET ij == PairsFrom(1, 2, Len(categoricalColumns))
      pairs == [p \in DOMAIN ij |->
                  CramersPair(categoricalColumns[ij[p][1]], categoricalColumns[ij[p][2]],
                              cramersV(ColumnTexts(rows, categoricalColumns[ij[p][1]]),
                                       ColumnTexts(rows, categoricalColumns[ij[p][2]])))]
  \* coefficient > 0.1
  IN  SortByCoefficient(
        SelectSeq(pairs, LAMBDA p : FLess(Frac(1, 100), p.coefficient.sq)))

calculateCategoricalCorrelations(rows) ==
  IF Len(rows) = 0 THEN <<>>
  ELSE CategoricalPairsOver(rows, ColumnsOfType(rows, {"categorical", "boolean"}))

\* The CorrelationResult of a dataset; the explanation is not part of the
\* model.
CorrelationsOf(rows, matrix) ==
  [matrix |-> matrix,
   strongestRelations |->
     Take(SortByCoefficient(findStrongestCorrelations(matrix, 10)
                            \o calculateCategoricalCorrelations(rows)), 15)]

analyzeCorrelations(rows) ==
  IF Len(rows) = 0
    THEN [matrix |-> [columns |-> <<>>, at |-> <<>>], strongestRelations |-> <<>>]
    ELSE CorrelationsOf(rows, calculateCorrelationMatrix(rows))

RelatedFeature(column, coefficient) ==
  [column |-> column, coefficient |-> coefficient,
   strength |-> getCorrelationStrength(coefficient)]

findCorrelatedFeatures(rows, targetColumn, limit) ==
  LET columns == SelectSeq(Keys(rows[1]), LAMBDA c : c # targetColumn)
      targetValues == extractNumericValues(rows, targetColumn)
      correlation(col) ==
        IF Len(targetValues) = 0
          THEN cramersV(ColumnTexts(rows, targetColumn), ColumnTexts(rows, col))
        ELSE IF Len(extractNumericValues(rows, col)) >= 3
          THEN pearsonCorrelation(targetValues, extractNumericValues(rows, col))
        ELSE CoefZero
      related == [i \in DOMAIN columns |->
                    RelatedFeature(columns[i], correlation(columns[i]))]
  IN  IF Len(rows) = 0 THEN <<>>
      ELSE Take(SortByCoefficient(SelectSeq(related, LAMBDA r : r.strength # "none")),
                limit)

-----------------------------------------------------------------------------
(* Statistics summarizer                                                   *)

\* skewness = sum(((v - avg) / std)^3) / n, on D[i] = n(v[i] - avg): its sign
\* and its square sum(D^3)^2 / sum(D^2)^3 * n.  A zero standard deviation
\* makes it NaN, which fails every comparison.
detectDistribution(values) ==
  LET n == Len(values)
      s == Sum(values)
      D == [i \in 1..n |-> n * values[i] - s]
      m2 == Sum([i \in 1..n |-> D[i] * D[i]])
      m3 == Sum([i \in 1..n |-> D[i] * D[i] * D[i]])
      skew2 == FMul(Square(Frac(m3, m2)), Frac(n, m2))
      p25 == percentile(values, 1, 4)
      p75 == percentile(values, 3, 4)
      midRange == SelectSeq(values, LAMBDA v : FLeq(p25, Int2Frac(v)) /\ FLeq(Int2Frac(v), p75))
  IN  IF n < 10 THEN "insufficient_data"
      ELSE IF m2 # 0 /\ FLess(skew2, Frac(1, 4)) THEN "normal"
      ELSE IF m2 # 0 /\ m3 > 0 /\ FLess(One, skew2) THEN "right_skewed"
      ELSE IF m2 # 0 /\ m3 < 0 /\ FLess(One, skew2) THEN "left_skewed"
      \* bimodal when fewer than 30% of the values are between p25 and p75
      ELSE IF 10 * Len(midRange) < 3 * n THEN "bimodal"
      ELSE "unknown"

OutliersOutside(values, lowerBound, upperBound) ==
  Len(SelectSeq(values, LAMBDA v : \/ FLess(Int2Frac(v), lowerBound)
                                   \/ FLess(upperBound, Int2Frac(v))))

OutliersBetween(values, q) ==
  LET iqr == FSub(q.q3, q.q1)
  IN  OutliersOutside(values, FSub(q.q1, FMul(Frac(3, 2), iqr)),
                      FAdd(q.q3, FMul(Frac(3, 2), iqr)))

\* the count of findOutliers
findOutliers(values) ==
  IF Len(values) < 4 THEN 0 ELSE OutliersBetween(values, quartiles(values))

\* The StatisticalSummary of a dataset with its profile.  The means among
\* the key metrics and the overview and narrative texts are not part of the
\* model.
StatisticalSummaryOf(rows, profile, names) ==
  LET outliers == [i \in DOMAIN names |->
                     [column |-> names[i],
                      count |-> findOutliers(extractNumericValues(rows, names[i]))]]
      first5 == Take(names, 5)
      ij == PairsFrom(1, 2, Len(first5))
      highlights == [p \in DOMAIN ij |->
                       [column1 |-> first5[ij[p][1]], column2 |-> first5[ij[p][2]],
                        coefficient |->
                          pearsonCorrelation(extractNumericValues(rows, first5[ij[p][1]]),
                                             extractNumericValues(rows, first5[ij[p][2]]))]]
  IN  [keyMetrics |-> [totalRows |-> profile.rowCount,
                       totalColumns |-> profile.columnCount,
                       completeness |-> profile.completeness,
                       numericColumns |-> Len(names)],
       distributions |-> [i \in DOMAIN names |->
                            [column |-> names[i],
                             type |-> detectDistribution(
                                        extractNumericValues(rows, names[i]))]],
       outliers |-> SelectSeq(outliers, LAMBDA o : o.count > 0),
       \* Math.abs(corr) > 0.7
       correlationHighlights |->
         SelectSeq(highlights, LAMBDA h : FLess(Frac(49, 100), h.coefficient.sq))]

generateStatisticalSummary(rows, profile) ==
  StatisticalSummaryOf(rows, profile, Names(getColumnsByType(profile, "numeric")))

-----------------------------------------------------------------------------
(* Insight synthesizer                                                     *)

Insight(type, category, title, importance, relatedColumns) ==
  [type |-> type, category |-> category, title |-> title,
   importance |-> importance, relatedColumns |-> relatedColumns]

\* The key insights of a dataset, sorted by importance; the descriptions
\* are not part of the model.
KeyInsightsOf(profile, anomalyResult, trends, correlations) ==
  LET highNullCols == findHighNullColumns(profile, Frac(1, 10))
      quality ==
        IF Len(highNullCols) > 0
          THEN << Insight("warning", "Data Quality", "Missing Data Detected",
                          IF \E i \in DOMAIN highNullCols :
                               10 * highNullCols[i].nullCount > 3 * highNullCols[i].totalCount
                            THEN "high" ELSE "medium",
                          Names(highNullCols)) >>
          ELSE <<>>
      idCols == findPotentialIdColumns(profile)
      ids ==
        IF Len(idCols) > 0
          THEN << Insight("observation", "Data Structure",
                          "Potential Identifier Columns", "low", Names(idCols)) >>
          ELSE <<>>
      highSeverity == SelectSeq(anomalyResult.anomalies,
                                LAMBDA a : FLess(Frac(64, 100), a.score2))
      anomalies ==
        IF Len(anomalyResult.anomalies) > 0
          THEN << Insight(IF Len(highSeverity) > 5 THEN "warning" ELSE "observation",
                          "Anomalies", "Anomalous Data Points Detected",
                          IF Len(highSeverity) > 5 THEN "high" ELSE "medium",
                          anomalyResult.affectedColumns) >>
          ELSE <<>>
      strong(direction) ==
        SelectSeq(trends, LAMBDA t : t.direction = direction /\ R2Above(t.strength, Frac(1, 2)))
      TrendColumns(ts) == [i \in DOMAIN ts |-> ts[i].column]
      growth ==
        IF Len(strong("increasing")) > 0
          THEN << Insight("opportunity", "Trends", "Growth Trends Identified", "high",
                          TrendColumns(strong("increasing"))) >>
          ELSE <<>>
      decline ==
        IF Len(strong("decreasing")) > 0
          THEN << Insight("warning", "Trends", "Declining Trends Detected", "high",
                          TrendColumns(strong("decreasing"))) >>
          ELSE <<>>
      strongCorr == SelectSeq(correlations.strongestRelations,
                              LAMBDA c : c.strength = "strong")
      \* Math.abs(c.coefficient) > 0.9
      multicollinear == SelectSeq(strongCorr,
                                  LAMBDA c : FLess(Frac(81, 100), c.coefficient.sq))
      PairColumns(ps) ==
        Distinct(Concat([i \in DOMAIN ps |-> <<ps[i].column1, ps[i].column2>>]))
      related ==
        IF Len(strongCorr) = 0 THEN <<>>
        ELSE IF Len(multicollinear) > 0
          THEN << Insight("warning", "Correlations", "Potential Multicollinearity",
                          "medium", PairColumns(multicollinear)) >>
        ELSE << Insight("observation", "Correlations", "Strong Variable Relationships",
                        "medium", PairColumns(strongCorr)) >>
      \* Math.abs(c.stdDev / c.mean) > 1
      highVarianceCols ==
        SelectSeq(getColumnsByType(profile, "numeric"),
                  LAMBDA c : /\ c.hasStats
                             /\ c.mean.n # 0
                             /\ FLess(FMul(c.mean, c.mean), c.stdDev2))
      distribution ==
        IF Len(highVarianceCols) > 0
          THEN << Insight("observation", "Distribution", "High Variance Columns", "low",
                          Names(highVarianceCols)) >>
          ELSE <<>>
      insights == quality \o ids \o anomalies \o growth \o decline \o related
                  \o distribution
      \* ascending in importanceOrder, equal importance in its order
      byImportance(importance) ==
        SelectSeq(insights, LAMBDA i : i.importance = importance)
  IN  byImportance("high") \o byImportance("medium") \o byImportance("low")

generateKeyInsights(rows, profile) ==
  KeyInsightsOf(profile, detectAllAnomalies(rows), analyzeAllTrends(rows),
                analyzeCorrelations(rows))

Titles(insights) == [i \in DOMAIN insights |-> insights[i].title]

\* What the executive summary tells, part by part: the shape of the dataset
\* and the titles of the high-priority findings, of the opportunities and of
\* the warnings
generateExecutiveSummary(rows, profile, insights) ==
  [rowCount |-> profile.rowCount,
   columnCount |-> profile.columnCount,
   completeness |-> profile.completeness,
   highPriority |-> Titles(SelectSeq(insights, LAMBDA i : i.importance = "high")),
   opportunities |-> Titles(SelectSeq(insights, LAMBDA i : i.type = "opportunity")),
   warnings |-> Titles(SelectSeq(insights, LAMBDA i : i.type = "warning"))]

\* the recommendations an insight gives: the advice and the columns named
RecommendationsOf(insight) ==
  LET advice(type, category, text) ==
        IF insight.type = type /\ insight.category = category
          THEN << [advice |-> text, columns |-> insight.relatedColumns] >>
          ELSE <<>>
  IN  advice("warning", "Data Quality", "Address missing data")
      \o advice("warning", "Anomalies", "Investigate anomalous values")
      \o advice("opportunity", "Trends", "Capitalize on growth trends")
      \o advice("warning", "Trends", "Address declining metrics")
      \o (IF insight.type = "warning" /\ insight.category = "Correlations"
            THEN << [advice |-> "Consider dimensionality reduction or feature selection",
                     columns |-> <<>>] >>
            ELSE <<>>)

MonitoringRecommendation ==
  [advice |-> "Establish ongoing monitoring for key metrics to track changes over time.",
   columns |-> <<>>]

\* the most recommendations generateRecommendations returns
MaxRecommendations == 7

generateRecommendations(insights) ==
  Take(Concat([i \in DOMAIN insights |-> RecommendationsOf(insights[i])])
         \o <<MonitoringRecommendation>>,
       MaxRecommendations)

suggestVisualizations(profile, insights) ==
  LET numericCols == Len(getColumnsByType(profile, "numeric"))
      categoricalCols == Len(getColumnsByType(profile, "categorical"))
      datetimeCols == Len(getColumnsByType(profile, "datetime"))
      hasCategory(category) == \E i \in DOMAIN insights : insights[i].category = category
  IN  Distinct(
        (IF datetimeCols > 0 /\ numericCols > 0 THEN <<"line", "area">> ELSE <<>>)
        \o (IF numericCols > 0 THEN <<"histogram", "box">> ELSE <<>>)
        \o (IF categoricalCols > 0 THEN <<"bar", "pie">> ELSE <<>>)
        \o (IF numericCols >= 2 THEN <<"scatter", "heatmap">> ELSE <<>>)
        \o (IF hasCategory("Anomalies") THEN <<"scatter">> ELSE <<>>)
        \o (IF hasCategory("Trends") THEN <<"line">> ELSE <<>>))

-----------------------------------------------------------------------------
(* Query router.  A handler gives back Returned(response) or the error a   *)
(* call of it throws.  Of a text the model keeps which of the handler's    *)
(* templates it is built from; the query of a response is the text itself. *)

\* rows.find(c => c.name.toLowerCase() === targetColumn.toLowerCase()):
\* the profiles of the columns that match, the first being the one found
FindColumn(profile, targetColumn) ==
  IF targetColumn = <<>> THEN <<>>
  ELSE SelectSeq(profile.columns,
                 LAMBDA c : toLowerCase(c.name) = toLowerCase(targetColumn))

\* an object literal with no properties
EmptyObject == [key \in {} |-> key]

handleProfileQuery(rows) ==
  Returned([query |-> <<"D", "a", "t", "a", "s", "e", "t", " ", "p", "r", "o", "f", "i", "l", "e">>,
            intent |-> "profile",
            insights |-> [profile |-> profileDataset(rows)],
            textSummary |-> "generateProfileSummary(profile)",
            recommendedCharts |-> <<"bar", "pie">>])

\* the response of handleSummaryQuery to a query without a target column or
\* with one that the dataset does not hold
SummaryOfDataset(rows, profile, statistics, keyInsights) ==
  Returned([query |-> <<"D", "a", "t", "a", "s", "e", "t", " ", "s", "u", "m", "m", "a", "r", "y">>,
            intent |-> "summary",
            insights |-> [profile |-> profile, statistics |-> statistics,
                          keyInsights |-> keyInsights],
            textSummary |-> "statistics.narrative",
            recommendedCharts |-> suggestVisualizations(profile, keyInsights),
            executiveSummary |-> generateExecutiveSummary(rows, profile, keyInsights),
            recommendations |-> generateRecommendations(keyInsights)])

SummaryOfProfile(rows, targetColumn, profile) ==
  LET found == FindColumn(profile, targetColumn)
  IN  IF found # <<>>
        THEN Returned([query |-> <<"S", "u", "m", "m", "a", "r", "y", " ", "o", "f", " ">> \o targetColumn,
                       intent |-> "summary",
                       insights |-> [profile |-> profile],
                       textSummary |-> "Column (type): getColumnStats",
                       recommendedCharts |-> IF found[1].type = "numeric"
                                               THEN <<"histogram", "box">>
                                               ELSE <<"bar", "pie">>])
        ELSE SummaryOfDataset(rows, profile,
                              generateStatisticalSummary(rows, profile),
                              generateKeyInsights(rows, profile))

\* handleSummaryQuery reading colProfile.name without the test that a column
\* was found
handleSummaryQuery_unchecked(rows, targetColumn) ==
  IF targetColumn # <<>> /\ FindColumn(profileDataset(rows), targetColumn) = <<>>
    THEN Thrown("TypeError")
    ELSE SummaryOfProfile(rows, targetColumn, profileDataset(rows))

handleSummaryQuery(rows, targetColumn) ==
  SummaryOfProfile(rows, targetColumn, profileDataset(rows))

\* with a target column the anomalyScore is the score of the first anomaly,
\* kept as its square
AnomaliesOfColumn(targetColumn, summary) ==
  Returned([query |-> <<"A", "n", "o", "m", "a", "l", "i", "e", "s", " ", "i", "n", " ">> \o targetColumn,
            intent |-> "anomalies",
            insights |->
              [anomalies |->
                 [anomalies |-> summary.topAnomalies,
                  anomalyScore2 |-> IF Len(summary.topAnomalies) > 0
                                      THEN summary.topAnomalies[1].score2
                                      ELSE Zero,
                  affectedColumns |-> <<targetColumn>>]],
            textSummary |-> "Anomaly analysis for column",
            recommendedCharts |-> <<"scatter", "line", "box">>])

handleAnomalyQuery(rows, targetColumn) ==
  IF targetColumn # <<>>
    THEN AnomaliesOfColumn(targetColumn, getColumnAnomalySummary(rows, targetColumn))
    ELSE Returned([query |-> <<"F", "i", "n", "d", " ", "a", "n", "o", "m", "a", "l", "i", "e", "s">>,
                   intent |-> "anomalies",
                   insights |-> [anomalies |-> detectAllAnomalies(rows)],
                   textSummary |-> "anomalies.explanation",
                   recommendedCharts |-> <<"scatter", "line", "heatmap">>])

\* the response with the forecast of the target column, or the error the
\* call of forecast throws
ForecastOfColumn(targetColumn, result) ==
  IF result.status = "thrown" THEN result
  ELSE Returned([query |-> <<"F", "o", "r", "e", "c", "a", "s", "t", " ">> \o targetColumn,
                 intent |-> "forecast",
                 insights |-> [forecasts |-> <<result.value>>],
                 textSummary |-> "result.interpretation",
                 recommendedCharts |-> <<"line", "area">>])

ForecastOfDataset(forecasts) ==
  IF forecasts.status = "thrown" THEN forecasts
  ELSE Returned([query |-> <<"G", "e", "n", "e", "r", "a", "t", "e", " ", "f", "o", "r", "e", "c", "a", "s", "t", "s">>,
                 intent |-> "forecast",
                 insights |-> [forecasts |-> forecasts.value],
                 textSummary |-> "getForecastSummary(forecasts)",
                 recommendedCharts |-> <<"line", "area">>])

handleForecastQuery(rows, targetColumn) ==
  IF targetColumn # <<>>
    THEN ForecastOfColumn(targetColumn,
                          forecast(rows, targetColumn, DefaultPeriods, "auto"))
    ELSE ForecastOfDataset(forecastAll(rows, DefaultPeriods))

handleTrendQuery(rows, targetColumn) ==
  IF targetColumn # <<>>
    THEN Returned([query |-> <<"T", "r", "e", "n", "d", "s", " ", "i", "n", " ">> \o targetColumn,
                   intent |-> "trends",
                   insights |-> [trends |-> <<analyzeTrend(rows, targetColumn)>>],
                   textSummary |-> "trend.explanation",
                   recommendedCharts |-> <<"line", "area">>])
    ELSE Returned([query |-> <<"A", "n", "a", "l", "y", "z", "e", " ", "t", "r", "e", "n", "d", "s">>,
                   intent |-> "trends",
                   insights |-> [trends |-> analyzeAllTrends(rows)],
                   textSummary |-> "getTrendSummary(trends)",
                   recommendedCharts |-> <<"line", "area", "heatmap">>])

CorrelationsOfDataset(rows, targetColumn, correlations) ==
  IF targetColumn # <<>>
    THEN Returned([query |-> <<"C", "o", "r", "r", "e", "l", "a", "t", "i", "o", "n", "s", " ", "w", "i", "t", "h", " ">> \o targetColumn,
                   intent |-> "correlation",
                   insights |-> [correlations |-> correlations],
                   textSummary |-> IF Len(findCorrelatedFeatures(rows, targetColumn, 10)) > 0
                                     THEN "Top correlations with column"
                                     ELSE "No significant correlations found for column",
                   recommendedCharts |-> <<"scatter", "heatmap">>])
    ELSE Returned([query |-> <<"E", "x", "p", "l", "a", "i", "n", " ", "c", "o", "r", "r", "e", "l", "a", "t", "i", "o", "n", "s">>,
                   intent |-> "correlation",
                   insights |-> [correlations |-> correlations],
                   textSummary |-> "correlations.explanation",
                   recommendedCharts |-> <<"heatmap", "scatter">>])

handleCorrelationQuery(rows, targetColumn) ==
  CorrelationsOfDataset(rows, targetColumn, analyzeCorrelations(rows))

\* the response of generateCompleteAnalysis, or the error forecastAll throws
CompleteAnalysisOf(rows, profile, forecasts, keyInsights) ==
  IF forecasts.status = "thrown" THEN forecasts
  ELSE Returned([query |-> <<"C", "o", "m", "p", "l", "e", "t", "e", " ", "d", "a", "t", "a", "s", "e", "t", " ", "a", "n", "a", "l", "y", "s", "i", "s">>,
                 intent |-> "summary",
                 insights |-> [profile |-> profile,
                               statistics |-> generateStatisticalSummary(rows, profile),
                               trends |-> analyzeAllTrends(rows),
                               anomalies |-> detectAllAnomalies(rows),
                               forecasts |-> forecasts.value,
                               correlations |-> analyzeCorrelations(rows),
                               keyInsights |-> keyInsights],
                 textSummary |-> "statistics.narrative",
                 recommendedCharts |-> suggestVisualizations(profile, keyInsights),
                 executiveSummary |->
                   generateExecutiveSummary(rows, profile, keyInsights),
                 recommendations |-> generateRecommendations(keyInsights)])

CompleteAnalysisOfProfile(rows, profile) ==
  CompleteAnalysisOf(rows, profile, forecastAll(rows, DefaultPeriods),
                     generateKeyInsights(rows, profile))

\* generateCompleteAnalysis leaving the forecasts out of the insights
generateCompleteAnalysis_noForecasts(rows) ==
  LET complete == CompleteAnalysisOfProfile(rows, profileDataset(rows))
      kept == DOMAIN complete.value.insights \ {"forecasts"}
  IN  IF complete.status = "thrown" THEN complete
      ELSE Returned([complete.value EXCEPT
                       !.insights = [k \in kept |-> complete.value.insights[k]]])

generateCompleteAnalysis(rows) ==
  CompleteAnalysisOfProfile(rows, profileDataset(rows))

ExplainOfProfile(targetColumn, profile) ==
  LET found == FindColumn(profile, targetColumn)
  IN  IF found = <<>>
        THEN Returned([query |-> <<"E", "x", "p", "l", "a", "i", "n", " ">> \o targetColumn,
                       intent |-> "explain",
                       insights |-> [profile |-> profile],
                       textSummary |-> "Column not found in dataset.",
                       recommendedCharts |-> <<>>])
      ELSE Returned([query |-> <<"E", "x", "p", "l", "a", "i", "n", " ">> \o targetColumn,
                     intent |-> "explain",
                     insights |-> [profile |-> profile],
                     textSummary |-> IF found[1].type = "numeric"
                                       THEN "column, range, trend, anomalies, correlations"
                                       ELSE "column, unique values, top values",
                     recommendedCharts |-> IF found[1].type = "numeric"
                                             THEN <<"line", "histogram", "scatter">>
                                             ELSE <<"bar", "pie">>])

handleExplainQuery(rows, targetColumn) ==
  IF targetColumn = <<>> THEN generateCompleteAnalysis(rows)
  ELSE ExplainOfProfile(targetColumn, profileDataset(rows))

NoDataText == "No data provided for analysis. Please provide a valid dataset."

\* the handler a detected intent is dispatched to
Dispatch(intent, rows, targetColumn) ==
  CASE intent = "profile" -> handleProfileQuery(rows)
    [] intent = "summary" -> handleSummaryQuery(rows, targetColumn)
    [] intent = "anomalies" -> handleAnomalyQuery(rows, targetColumn)
    [] intent = "forecast" -> handleForecastQuery(rows, targetColumn)
    [] intent = "trends" -> handleTrendQuery(rows, targetColumn)
    [] intent = "correlation" -> handleCorrelationQuery(rows, targetColumn)
    [] intent = "explain" -> handleExplainQuery(rows, targetColumn)
    [] OTHER -> handleSummaryQuery(rows, targetColumn)

\* the handler's response to a query with its detected intent and target
Route(rows, detected) == Dispatch(detected.intent, rows, detected.targetColumn)

\* analyze without the test for an empty dataset
analyze_noEmptyTest(query, rows) == Route(rows, detectIntent(query))

\* What the promise analyze returns settles with
analyze(query, rows) ==
  IF Len(rows) = 0
    THEN Returned([query |-> query,
                   intent |-> "summary",
                   insights |-> EmptyObject,
                   textSummary |-> NoDataText,
                   recommendedCharts |-> <<>>])
    ELSE Route(rows, detectIntent(query))

-----------------------------------------------------------------------------
(* Frame: what the engine does to the rows it is given.  The rows are never *)
(* copied on the way in: every function works on the caller's array.        *)

\* What a method leaves of the array it is called on.  length, rows[0],
\* Object.keys(rows[0]) and map read it; reverse reorders it in place.
Reverse(array) == [i \in DOMAIN array |-> array[Len(array) + 1 - i]]

ArrayAfter(method, array) ==
  CASE method \in {"length", "index", "keys", "map"} -> array
    [] method = "reverse" -> Reverse(array)

\* the methods, with extractNumericValues reversing the rows in place before
\* it maps them
RowsMethods_reversing ==
  [analyze |-> <<"length">>,
   profileColumn |-> <<"map">>,
   profileDataset |-> <<"length", "index", "keys", "length", "length">>,
   extractNumericValues |-> <<"reverse", "map">>,
   analyzeAllTrends |-> <<"length", "index", "keys">>,
   forecastAll |-> <<"length", "index", "keys">>,
   detectAllAnomalies |-> <<"length", "index", "keys", "length", "length">>,
   calculateCorrelationMatrix |-> <<"length", "index", "keys", "map">>,
   calculateCategoricalCorrelations |-> <<"length", "index", "keys", "map", "map", "map">>,
   analyzeCorrelations |-> <<"length">>,
   findCorrelatedFeatures |-> <<"length", "index", "keys", "map", "map">>]

\* the methods each function calls on rows itself, in order
RowsMethods ==
  [analyze |-> <<"length">>,
   profileColumn |-> <<"map">>,
   profileDataset |-> <<"length", "index", "keys", "length", "length">>,
   extractNumericValues |-> <<"map">>,
   analyzeAllTrends |-> <<"length", "index", "keys">>,
   forecastAll |-> <<"length", "index", "keys">>,
   detectAllAnomalies |-> <<"length", "index", "keys", "length", "length">>,
   calculateCorrelationMatrix |-> <<"length", "index", "keys", "map">>,
   calculateCategoricalCorrelations |-> <<"length", "index", "keys", "map", "map", "map">>,
   analyzeCorrelations |-> <<"length">>,
   findCorrelatedFeatures |-> <<"length", "index", "keys", "map", "map">>]

\* the functions each function passes rows on to
Calls ==
  [analyze |-> {},
   handleProfileQuery |-> {"profileDataset"},
   handleSummaryQuery |-> {"profileDataset", "getColumnStats",
                           "generateStatisticalSummary", "generateKeyInsights"},
   handleAnomalyQuery |-> {"getColumnAnomalySummary", "detectAllAnomalies"},
   handleForecastQuery |-> {"forecast", "forecastAll"},
   handleTrendQuery |-> {"analyzeTrend", "analyzeAllTrends"},
   handleCorrelationQuery |-> {"analyzeCorrelations", "findCorrelatedFeatures"},
   handleExplainQuery |-> {"profileDataset", "analyzeTrend", "getColumnAnomalySummary",
                           "findCorrelatedFeatures", "generateCompleteAnalysis"},
   generateCompleteAnalysis |-> {"profileDataset", "generateStatisticalSummary",
                                 "analyzeAllTrends", "detectAllAnomalies", "forecastAll",
                                 "analyzeCorrelations", "generateKeyInsights"},
   generateKeyInsights |-> {"detectAllAnomalies", "analyzeAllTrends", "analyzeCorrelations"},
   generateStatisticalSummary |-> {"profileDataset", "extractNumericValues"},
   getColumnStats |-> {"extractNumericValues"},
   profileDataset |-> {"profileColumn"},
   profileColumn |-> {"extractNumericValues"},
   extractNumericValues |-> {},
   analyzeTrend |-> {"extractNumericValues"},
   analyzeAllTrends |-> {"extractNumericValues", "analyzeTrend"},
   detectColumnAnomalies |-> {"extractNumericValues"},
   detectAllAnomalies |-> {"extractNumericValues", "detectColumnAnomalies"},
   getColumnAnomalySummary |-> {"detectColumnAnomalies"},
   forecast |-> {"extractNumericValues"},
   forecastAll |-> {"extractNumericValues", "forecast"},
   calculateCorrelationMatrix |-> {"extractNumericValues"},
   calculateCategoricalCorrelations |-> {},
   analyzeCorrelations |-> {"calculateCorrelationMatrix",
                            "calculateCategoricalCorrelations"},
   findCorrelatedFeatures |-> {"extractNumericValues"}]

\* the functions that get the rows when f is called: f and all it passes
\* them on to
RECURSIVE ReachedFrom(_, _)
ReachedFrom(frontier, seen) ==
  IF frontier \subseteq seen THEN seen
  ELSE ReachedFrom(UNION {Calls[f] : f \in frontier}, seen \cup frontier)

RECURSIVE ApplyMethods(_, _)
ApplyMethods(methods, array) ==
  IF methods = <<>> THEN array
  ELSE ApplyMethods(Tail(methods), ArrayAfter(Head(methods), array))

RECURSIVE ApplyFunctions(_, _)
ApplyFunctions(functions, array) ==
  IF functions = {} THEN array
  ELSE LET f == CHOOSE g \in functions : TRUE
           own == IF f \in DOMAIN RowsMethods THEN RowsMethods[f] ELSE <<>>
       IN  ApplyFunctions(functions \ {f}, ApplyMethods(own, array))

\* the rows as a call of f leaves them
RowsAfter(f, rows) == ApplyFunctions(ReachedFrom({f}, {}), rows)

HandlerOf(intent) ==
  CASE intent = "profile" -> "handleProfileQuery"
    [] intent = "summary" -> "handleSummaryQuery"
    [] intent = "anomalies" -> "handleAnomalyQuery"
    [] intent = "forecast" -> "handleForecastQuery"
    [] intent = "trends" -> "handleTrendQuery"
    [] intent = "correlation" -> "handleCorrelationQuery"
    [] intent = "explain" -> "handleExplainQuery"

-----------------------------------------------------------------------------
(* The inputs of the model                                                  *)

\* the most rows of a dataset, the most fragments of a query and the
\* largest number of periods asked of forecast
MaxRows == 5
MaxFragments == 2
MaxPeriods == 1

revenue == <<"r", "e", "v", "e", "n", "u", "e">>
cost == <<"c", "o", "s", "t">>
region == <<"r", "e", "g", "i", "o", "n">>

ColumnNames == {revenue, cost, region}

\* the cell of row i of a column filled after a pattern; Absent is a key the
\* row does not hold
Absent == [k |-> "absent", v |-> 0, s |-> ""]

Cell(pattern, i) ==
  CASE pattern = "rising" -> Num(i)
    [] pattern = "falling" -> Num(Max(5 - i, 0))
    [] pattern = "noisy" -> Num(<<2, 9, 1, 8, 3, 7, 2, 9>>[((i - 1) % 8) + 1])
    [] pattern = "flat" -> Num(4)
    [] pattern = "labels" -> Str(IF i % 2 = 1 THEN "north" ELSE "south")
    [] pattern = "infinite" -> Infinity
    [] pattern = "mostly" -> IF i = 3 THEN Str("abc") ELSE Num(i)
    [] pattern = "sparse" -> IF i % 2 = 0 THEN Absent ELSE Num(i)
    [] pattern = "late" -> IF i = 1 THEN Absent ELSE Num(i)
    [] pattern = "blank" -> <<Str(""), Null, Str("north")>>[((i - 1) % 3) + 1]
    [] pattern = "mixed" ->
         << Num(3), Str("12"), Null, Str(""), Str("abc"), Bool(TRUE), Str("7"),
            NaN >>[((i - 1) % 8) + 1]

Layouts ==
  { << <<revenue, "rising">>, <<cost, "falling">>, <<region, "labels">> >>,
    << <<revenue, "noisy">>, <<cost, "mixed">> >>,
    << <<region, "labels">>, <<cost, "flat">> >>,
    << <<revenue, "infinite">>, <<cost, "rising">>, <<region, "mostly">> >>,
    << <<cost, "sparse">>, <<revenue, "mostly">> >> }

RowOf(layout, i) ==
  LET pairs == [c \in DOMAIN layout |-> <<layout[c][1], Cell(layout[c][2], i)>>]
  IN  SelectSeq(pairs, LAMBDA pair : pair[2] # Absent)

DatasetOf(layout, n) == [i \in 1..n |-> RowOf(layout, i)]

Datasets == { DatasetOf(layout, n) : layout \in Layouts, n \in 0..MaxRows }

\* the fragments queries are made of, and a query of up to MaxFragments
\* different ones of them separated by blanks
Vocabulary ==
  { <<"p", "r", "o", "f", "i", "l", "e">>, <<"t", "r", "e", "n", "d", " ", "s", "u", "m", "m", "a", "r", "y">>, <<"a", "n", "o", "m", "a", "l", "i", "e", "s">>, <<"f", "o", "r", "e", "c", "a", "s", "t">>, <<"T", "r", "e", "n", "d", "s">>,
    <<"c", "o", "r", "r", "e", "l", "a", "t", "i", "o", "n">>, <<"e", "x", "p", "l", "a", "i", "n">>, <<"r", "e", "v", "e", "n", "u", "e">>, <<"c", "o", "l", "u", "m", "n", " ", "c", "o", "s", "t">> }

RECURSIVE Join(_)
Join(fragments) ==
  IF Len(fragments) = 0 THEN <<>>
  ELSE IF Len(fragments) = 1 THEN fragments[1]
  ELSE fragments[1] \o <<" ">> \o Join(Tail(fragments))

Injective(f) == \A i, j \in DOMAIN f : i # j => f[i] # f[j]

Queries ==
  { Join(f) : f \in UNION { { g \in [1..n -> Vocabulary] : Injective(g) } :
                              n \in 0..MaxFragments } }

Periods == ((0 - MaxPeriods)..MaxPeriods) \cup {DefaultPeriods}

Methods == {"linear", "exponential", "rolling", "auto"}

-----------------------------------------------------------------------------
(* The engine as a state machine: a caller holds a dataset and calls analyze *)
(* or an exported analyzer on it; the call settles and the caller takes the  *)
(* result.                                                                   *)

Init ==
  /\ dataset = <<>>
  /\ runtimeLenientDates \in BOOLEAN
  /\ pc = "idle"
  /\ call = NoCall
  /\ response = NoCall
  /\ earlier = NoCall

LoadFrom(datasets) ==
  /\ pc = "idle"
  /\ \E d \in datasets : dataset' = d
  /\ UNCHANGED <<runtimeLenientDates, pc, call, response, earlier>>

\* the caller takes another dataset
LoadDataset == LoadFrom(Datasets)

Settle(theCall, f, result) ==
  /\ pc = "idle"
  /\ pc' = "done"
  /\ call' = theCall
  /\ response' = result
  /\ dataset' = RowsAfter(f, dataset)
  /\ UNCHANGED <<runtimeLenientDates, earlier>>

AnalyzeQuery(q) ==
  /\ call' = [op |-> "analyze", query |-> q]
  /\ pc = "idle"
  /\ pc' = "done"
  /\ response' = analyze(q, dataset)
  /\ dataset' = IF Len(dataset) = 0 THEN RowsAfter("analyze", dataset)
                ELSE RowsAfter(HandlerOf(detectIntent(q).intent),
                               RowsAfter("analyze", dataset))
  /\ UNCHANGED <<runtimeLenientDates, earlier>>

Analyze == \E q \in Queries : AnalyzeQuery(q)

ProfileDataset ==
  Settle([op |-> "profileDataset"], "profileDataset",
         Returned(profileDataset(dataset)))

GenerateStatisticalSummary ==
  Settle([op |-> "generateStatisticalSummary"], "generateStatisticalSummary",
         Returned(generateStatisticalSummary(dataset, profileDataset(dataset))))

AnalyzeTrend ==
  \E c \in ColumnNames :
    Settle([op |-> "analyzeTrend", column |-> c], "analyzeTrend",
           Returned(analyzeTrend(dataset, c)))

DetectColumnAnomalies ==
  \E c \in ColumnNames :
    Settle([op |-> "detectColumnAnomalies", column |-> c], "detectColumnAnomalies",
           Returned(detectColumnAnomalies(dataset, c)))

DetectAllAnomalies ==
  Settle([op |-> "detectAllAnomalies"], "detectAllAnomalies",
         Returned(detectAllAnomalies(dataset)))

ForecastCall(c, periods, method) ==
  Settle([op |-> "forecast", column |-> c, periods |-> periods, method |-> method],
         "forecast", forecast(dataset, c, periods, method))

Forecast ==
  \E c \in ColumnNames, periods \in Periods, method \in Methods :
    ForecastCall(c, periods, method)

AnalyzeCorrelations ==
  Settle([op |-> "analyzeCorrelations"], "analyzeCorrelations",
         Returned(analyzeCorrelations(dataset)))

GenerateKeyInsights ==
  Settle([op |-> "generateKeyInsights"], "generateKeyInsights",
         Returned(generateKeyInsights(dataset, profileDataset(dataset))))

\* the caller takes the result; a result kept earlier has then been followed
\* by another call
Return ==
  /\ pc = "done"
  /\ pc' = "idle"
  /\ call' = NoCall
  /\ response' = NoCall
  /\ earlier' = IF earlier = NoCall THEN earlier ELSE [earlier EXCEPT !.followed = TRUE]
  /\ UNCHANGED <<dataset, runtimeLenientDates>>

Next ==
  \/ LoadDataset
  \/ Analyze
  \/ ProfileDataset
  \/ GenerateStatisticalSummary
  \/ AnalyzeTrend
  \/ DetectColumnAnomalies
  \/ DetectAllAnomalies
  \/ Forecast
  \/ AnalyzeCorrelations
  \/ GenerateKeyInsights
  \/ Return

Spec == Init /\ [][Next]_vars

-----------------------------------------------------------------------------
(* A caller that repeats calls: it keeps the result of a call, with the     *)
(* call and the dataset it was made on, makes other calls and loads other   *)
(* datasets, and makes the call again.                                      *)

RepeatDatasets == { DatasetOf(layout, MaxRows) : layout \in Layouts }

RepeatQueries ==
  { <<"p", "r", "o", "f", "i", "l", "e">>,
    <<"e", "x", "p", "l", "a", "i", "n">>,
    <<"f", "o", "r", "e", "c", "a", "s", "t", " ", "c", "o", "l", "u", "m", "n", " ", "c", "o", "s", "t">> }

LoadRepeat == LoadFrom(RepeatDatasets)

AnalyzeRepeat == \E q \in RepeatQueries : AnalyzeQuery(q)

ForecastRepeat == \E method \in Methods : ForecastCall(revenue, DefaultPeriods, method)

\* the caller takes the result and keeps it
KeepResult ==
  /\ pc = "done"
  /\ pc' = "idle"
  /\ earlier' = [call |-> call, dataset |-> dataset, response |-> response,
              followed |-> FALSE]
  /\ call' = NoCall
  /\ response' = NoCall
  /\ UNCHANGED <<dataset, runtimeLenientDates>>

NextRepeat ==
  \/ LoadRepeat
  \/ AnalyzeRepeat
  \/ ProfileDataset
  \/ GenerateStatisticalSummary
  \/ AnalyzeTrend
  \/ DetectColumnAnomalies
  \/ DetectAllAnomalies
  \/ ForecastRepeat
  \/ AnalyzeCorrelations
  \/ GenerateKeyInsights
  \/ Return
  \/ KeepResult

SpecRepeat == Init /\ [][NextRepeat]_vars

-----------------------------------------------------------------------------
(* A caller with time series: datasets of one column, revenue, long enough  *)
(* for the anomaly detectors (10 values) and the trend analyzer.            *)

\* the most rows of a constant series
MaxSeries == 12

SeriesOf(values) == [i \in DOMAIN values |-> << <<revenue, Num(values[i])>> >>]

\* The scenario of the specification: 30 rows whose revenue rises linearly
\* from 1000 to 2000, one of them replaced by 10 times its value.  The values
\* are in units of 1000/29, which makes them the integers 29..58: every test
\* of the detectors and of detectTrendDirection compares a ratio of two
\* quantities of the unit with a literal, and the fallbacks (mean || 1,
\* iqr || 1) apply at 0 only.
Scenario == [rows |-> 30, factor |-> 10]

ScenarioValues(outlier) ==
  [i \in 1..Scenario.rows |->
     IF i - 1 = outlier THEN Scenario.factor * (Scenario.rows - 1 + i - 1)
     ELSE Scenario.rows - 1 + i - 1]

ScenarioDatasets == { SeriesOf(ScenarioValues(k)) : k \in 0..(Scenario.rows - 1) }

ConstantDatasets ==
  { SeriesOf([i \in 1..n |-> c]) : n \in 1..MaxSeries, c \in {0 - 3, 0, 4} }

\* series in which several detectors flag a row with different scores
MergeDatasets ==
  { SeriesOf(<<5, 5, 5, 6, 4, 5, 3, 4, 15, 5, 5>>),
    SeriesOf(<<6, 4, 5, 5, 5, 5, 6, 3, 0, 25, 5>>),
    SeriesOf(<<6, 3, 5, 5, 5, 5, 5, 4, 5, 3, 15>>),
    SeriesOf(<<2, 9, 1, 8, 3, 7, 2, 9, 1, 8, 3, 40>>) }

SeriesDatasets == ScenarioDatasets \cup ConstantDatasets \cup MergeDatasets

LoadSeries == LoadFrom(SeriesDatasets)

NextSeries ==
  \/ LoadSeries
  \/ AnalyzeTrend
  \/ DetectColumnAnomalies
  \/ Return

SpecSeries == Init /\ [][NextSeries]_vars

-----------------------------------------------------------------------------
(* A caller with columns of raw values: datasets of one column, region,     *)
(* made of a run of one cell, a run of different numbers and a run of a     *)
(* second cell, long enough to pass the sample of detectColumnType.         *)

\* the most cells of the last run
MaxTail == 3

Repeat(cell, n) == [i \in 1..n |-> cell]

\* n different numbers, none of them boolean-like
Different(n) == [i \in 1..n |-> Num(i + 1)]

\* the cells of the first run and of the last
HeadCells == { Num(1), Str("Yes"), Str("north"), Str("2024-01-05"), Null }
TailCells == { Num(0), Str("north"), Str("") }

\* the lengths of the first run: around the 9 in 10 of the numeric rule, the
\* 8 in 10 of the datetime rule and the size of the sample
HeadLengths == {1, 4, 9, SampleSize - 1, SampleSize}

\* the lengths of the run of different numbers: none, and around the 20
\* distinct values of the categorical rule
DifferentLengths == {0, 19, 20}

ColumnOf(cells) == [i \in DOMAIN cells |-> << <<region, cells[i]>> >>]

RawDatasets ==
  { ColumnOf(Repeat(head, h) \o Different(d) \o Repeat(tail, t)) :
      head \in HeadCells, h \in HeadLengths, d \in DifferentLengths,
      tail \in TailCells, t \in 0..MaxTail }

LoadRaw == LoadFrom(RawDatasets)

\* detectColumnType(rows.map(row => row[columnName])), as profileColumn
\* calls it
DetectColumnType ==
  Settle([op |-> "detectColumnType", column |-> region], "profileColumn",
         Returned(detectColumnType(ColumnValues(dataset, region))))

NextTypes ==
  \/ LoadRaw
  \/ DetectColumnType
  \/ Return

SpecTypes == Init /\ [][NextTypes]_vars

-----------------------------------------------------------------------------
(* A caller that profiles datasets, among them datasets with empty cells,   *)
(* with a column the first row does not hold and with an empty first row.   *)

ProfileLayouts ==
  { << <<revenue, "rising">>, <<cost, "late">>, <<region, "blank">> >>,
    << <<region, "blank">>, <<cost, "sparse">> >>,
    << <<cost, "late">> >>,
    << <<region, "blank">>, <<revenue, "mixed">>, <<cost, "sparse">> >> }

ProfileDatasets ==
  Datasets \cup { DatasetOf(layout, n) : layout \in ProfileLayouts, n \in 0..MaxRows }

LoadProfiled == LoadFrom(ProfileDatasets)

NextProfile ==
  \/ LoadProfiled
  \/ ProfileDataset
  \/ Return

SpecProfile == Init /\ [][NextProfile]_vars

-----------------------------------------------------------------------------
(* A caller that asks for the correlation matrix of datasets of up to twice *)
(* MaxRows rows, in which a column with one text in ten cells is numeric.   *)

MatrixLayouts ==
  { << <<revenue, "rising">>, <<cost, "flat">>, <<region, "mostly">> >>,
    << <<revenue, "noisy">>, <<region, "labels">>, <<cost, "sparse">> >>,
    << <<cost, "flat">>, <<region, "labels">>, <<revenue, "mostly">> >>,
    << <<cost, "falling">>, <<revenue, "mixed">>, <<region, "noisy">> >>,
    << <<region, "labels">> >> }

MatrixDatasets ==
  { DatasetOf(layout, n) : layout \in MatrixLayouts, n \in 0..(2 * MaxRows) }

LoadMatrix == LoadFrom(MatrixDatasets)

CalculateCorrelationMatrix ==
  Settle([op |-> "calculateCorrelationMatrix"], "calculateCorrelationMatrix",
         Returned(calculateCorrelationMatrix(dataset)))

NextMatrix ==
  \/ LoadMatrix
  \/ CalculateCorrelationMatrix
  \/ Return

SpecMatrix == Init /\ [][NextMatrix]_vars

-----------------------------------------------------------------------------
(* CSV ingestion: the upload function parses the text of the file and turns *)
(* every line after the header into a row object.                           *)

\* the white space String.prototype.trim removes, among the characters of
\* the model
IsTrimmed(c) == c \in {" ", "\t", "\r", "\n"}

RECURSIVE trimStart(_)
trimStart(s) ==
  IF s # <<>> /\ IsTrimmed(Head(s)) THEN trimStart(Tail(s)) ELSE s

RECURSIVE trimEnd(_)
trimEnd(s) ==
  IF s # <<>> /\ IsTrimmed(s[Len(s)]) THEN trimEnd(SubSeq(s, 1, Len(s) - 1)) ELSE s

trim(s) == trimEnd(trimStart(s))

\* text.split(/\r?\n/), current being the line read so far
RECURSIVE SplitLines(_, _)
SplitLines(text, current) ==
  IF text = <<>> THEN <<current>>
  ELSE IF Head(text) = "\n" THEN <<current>> \o SplitLines(Tail(text), <<>>)
  ELSE IF Head(text) = "\r" /\ Len(text) > 1 /\ text[2] = "\n"
    THEN <<current>> \o SplitLines(SubSeq(text, 3, Len(text)), <<>>)
  ELSE SplitLines(Tail(text), Append(current, Head(text)))

\* the loop over a line when a comma inside quotes splits too
RECURSIVE FieldsFrom_noQuotes(_, _, _, _, _)
FieldsFrom_noQuotes(line, i, result, current, inQuotes) ==
  IF i > Len(line) THEN Append(result, trim(current))
  ELSE IF line[i] = "\"" THEN FieldsFrom_noQuotes(line, i + 1, result, current, inQuotes)
  ELSE IF line[i] = ","
    THEN FieldsFrom_noQuotes(line, i + 1, Append(result, trim(current)), <<>>, inQuotes)
  ELSE FieldsFrom_noQuotes(line, i + 1, result, Append(current, line[i]), inQuotes)

\* the loop of parseCSV over the characters of a line, from index i (from 1)
RECURSIVE FieldsFrom(_, _, _, _, _)
FieldsFrom(line, i, result, current, inQuotes) ==
  IF i > Len(line) THEN Append(result, trim(current))
  ELSE IF line[i] = "\"" THEN FieldsFrom(line, i + 1, result, current, ~ inQuotes)
  ELSE IF line[i] = "," /\ ~ inQuotes
    THEN FieldsFrom(line, i + 1, Append(result, trim(current)), <<>>, inQuotes)
  ELSE FieldsFrom(line, i + 1, result, Append(current, line[i]), inQuotes)

\* the lines of a text that are not blank
LinesOf(text) == SelectSeq(SplitLines(text, <<>>), LAMBDA line : trim(line) # <<>>)

parseCSV(text) ==
  [l \in DOMAIN LinesOf(text) |-> FieldsFrom(LinesOf(text)[l], 1, <<>>, <<>>, FALSE)]

\* obj[key] = value: the value of a key the object holds is replaced
Put(obj, key, value) ==
  IF \E i \in DOMAIN obj : obj[i][1] = key
    THEN [i \in DOMAIN obj |-> IF obj[i][1] = key THEN <<key, value>> ELSE obj[i]]
    ELSE Append(obj, <<key, value>>)

\* headers.forEach((header, index) => { obj[header] = row[index] || "" })
RECURSIVE RowObjectFrom(_, _, _, _)
RowObjectFrom(headers, row, index, obj) ==
  IF index > Len(headers) THEN obj
  ELSE RowObjectFrom(headers, row, index + 1,
                     Put(obj, headers[index],
                         IF index <= Len(row) THEN row[index] ELSE <<>>))

rowToObject(headers, row) == RowObjectFrom(headers, row, 1, <<>>)

\* What the upload function answers for the text of a file, the storage and
\* the database succeeding: status 400 when no line is left, else the
\* columns and the row objects it inserts.
UploadResponse(rows) ==
  IF Len(rows) = 0 THEN [status |-> 400, error |-> "No data found in file"]
  ELSE [status |-> 200,
        columns |-> rows[1],
        total_rows |-> Len(rows) - 1,
        row_data |-> [i \in 1..(Len(rows) - 1) |-> rowToObject(rows[1], rows[i + 1])]]

upload(text) == UploadResponse(parseCSV(text))

\* the most characters of the text of a file
MaxText == 6

CsvChars == {"a", ",", "\"", " ", "\n"}

RECURSIVE TextsOf(_)
TextsOf(n) ==
  IF n = 0 THEN { <<>> }
  ELSE { <<>> } \cup { <<c>> \o t : c \in CsvChars, t \in TextsOf(n - 1) }

CsvTexts == TextsOf(MaxText)

\* a request with the text of a file is pending
InitCsv ==
  /\ dataset = <<>>
  /\ runtimeLenientDates = FALSE
  /\ pc = "idle"
  /\ call \in { [op |-> "upload", text |-> text] : text \in CsvTexts }
  /\ response = NoCall
  /\ earlier = NoCall

Upload ==
  /\ pc = "idle"
  /\ call # NoCall
  /\ pc' = "done"
  /\ response' = Returned(upload(call.text))
  /\ UNCHANGED <<dataset, runtimeLenientDates, call, earlier>>

NextCsv ==
  \/ Upload
  \/ Return

SpecCsv == InitCsv /\ [][NextCsv]_vars

-----------------------------------------------------------------------------
(* A caller that forecasts: the datasets of the model and series of a mean  *)
(* that is negative or 0.                                                   *)

ForecastDatasets ==
  Datasets \cup
  { SeriesOf(<<0 - 5, 0 - 3, 0 - 4, 0 - 1, 0 - 2>>),
    SeriesOf(<<0 - 9, 0 - 1, 0 - 8, 0 - 2, 0 - 7, 0 - 3>>),
    SeriesOf(<<0 - 2, 0 - 1, 0, 1, 2>>),
    SeriesOf(<<2, 0 - 2, 1, 0 - 1, 0>>),
    SeriesOf(<<4, 4, 4, 4, 4>>),
    SeriesOf(<<10, 11, 10, 11, 10, 11>>) }

LoadForecast == LoadFrom(ForecastDatasets)

NextForecast ==
  \/ LoadForecast
  \/ Forecast
  \/ Return

SpecForecast == Init /\ [][NextForecast]_vars

-----------------------------------------------------------------------------
(* A caller that analyzes trends: the datasets above and every strictly     *)
(* increasing and strictly decreasing series of three values or more        *)
(* between -MaxValue and MaxValue.                                          *)

\* the largest size of a value of a monotone series
MaxValue == 3

RECURSIVE Ascending(_)
Ascending(S) ==
  IF S = {} THEN <<>>
  ELSE <<CHOOSE x \in S : \A y \in S : x <= y>>
       \o Ascending(S \ {CHOOSE x \in S : \A y \in S : x <= y})

MonotoneSeries ==
  { Ascending(S) : S \in { T \in SUBSET ((0 - MaxValue)..MaxValue) : Cardinality(T) >= 3 } }
  \cup
  { Reverse(Ascending(S)) :
      S \in { T \in SUBSET ((0 - MaxValue)..MaxValue) : Cardinality(T) >= 3 } }

TrendDatasets ==
  ForecastDatasets \cup MergeDatasets \cup { SeriesOf(values) : values \in MonotoneSeries }
  \cup { SeriesOf(<<100, 100, 101, 100, 100, 101>>),
         SeriesOf(<<0 - 100, 0 - 100, 0 - 101, 0 - 100, 0 - 99, 0 - 101>>),
         SeriesOf(<<1, 0 - 1>>) }

LoadTrend == LoadFrom(TrendDatasets)

NextTrend ==
  \/ LoadTrend
  \/ AnalyzeTrend
  \/ Return

SpecTrend == Init /\ [][NextTrend]_vars

-----------------------------------------------------------------------------
(* A caller that analyzes correlations: datasets of up to MaxNumeric        *)
(* numeric columns and up to two columns of labels.                         *)

\* the largest number of numeric columns of a dataset
MaxNumeric == 6

zone == <<"z", "o", "n", "e">>

NumericName(j) == <<"x", <<"1", "2", "3", "4", "5", "6", "7", "8", "9">>[j]>>

RelationCell(shape, j, i) ==
  IF shape = "ramp" THEN Num(j * i) ELSE Num(((i * j) % 3) + i)

RelationRow(shape, numeric, labels, i) ==
  [j \in 1..numeric |-> <<NumericName(j), RelationCell(shape, j, i)>>]
  \o (IF labels >= 1 THEN << <<region, Cell("labels", i)>> >> ELSE <<>>)
  \o (IF labels >= 2
        THEN << <<zone, Str(IF i % 3 = 0 THEN "abc" ELSE "south")>> >> ELSE <<>>)

RelationDatasets ==
  { [i \in 1..n |-> RelationRow(shape, numeric, labels, i)] :
      shape \in {"ramp", "wave"}, numeric \in 0..MaxNumeric, labels \in 0..2,
      n \in 2..MaxRows }

LoadRelations == LoadFrom(RelationDatasets)

NextRelations ==
  \/ LoadRelations
  \/ AnalyzeCorrelations
  \/ Return

SpecRelations == Init /\ [][NextRelations]_vars

-----------------------------------------------------------------------------
(* A caller of generateRecommendations: every list of up to MaxInsights     *)
(* insights of three kinds.                                                 *)

\* the longest list of insights
MaxInsights == 7

InsightKinds ==
  { Insight("warning", "Data Quality", "Missing Data Detected", "medium", <<cost>>),
    Insight("opportunity", "Trends", "Growth Trends Identified", "high", <<revenue>>),
    Insight("observation", "Distribution", "High Variance Columns", "low", <<revenue>>) }

InsightLists == UNION { [1..n -> InsightKinds] : n \in 0..MaxInsights }

GenerateRecommendations ==
  \E insights \in InsightLists :
    /\ pc = "idle"
    /\ pc' = "done"
    /\ call' = [op |-> "generateRecommendations", insights |-> insights]
    /\ response' = Returned(generateRecommendations(insights))
    /\ UNCHANGED <<dataset, runtimeLenientDates, earlier>>

NextRecommendations ==
  \/ GenerateRecommendations
  \/ Return

SpecRecommendations == Init /\ [][NextRecommendations]_vars

-----------------------------------------------------------------------------
(* A caller whose column has a gap: a series of numbers with one row more,  *)
(* before, between or after them, whose cell is not a number.               *)

GapSeries ==
  { <<5, 5, 5, 6, 4, 5, 3, 4, 15, 5, 5>>, <<1, 2, 3, 4, 5, 6, 7, 8, 30>>,
    <<4, 2, 3, 1>>, <<3, 4>> }

GapCells ==
  { Str("abc"), Str(""), Str("12"), Null, Undefined, NaN, Bool(TRUE), Absent }

\* the rows of the values with a row of the cell after the first k of them
WithGap(values, k, cell) ==
  SeriesOf(SubSeq(values, 1, k))
  \o << IF cell = Absent THEN <<>> ELSE << <<revenue, cell>> >> >>
  \o SeriesOf(SubSeq(values, k + 1, Len(values)))

GapDatasets ==
  { SeriesOf(values) : values \in GapSeries }
  \cup UNION { { WithGap(values, k, cell) : k \in 0..Len(values), cell \in GapCells } :
                values \in GapSeries }

LoadGaps == LoadFrom(GapDatasets)

ExtractNumericValues ==
  \E c \in ColumnNames :
    Settle([op |-> "extractNumericValues", column |-> c], "extractNumericValues",
           Returned(extractNumericValues(dataset, c)))

NextGaps ==
  \/ LoadGaps
  \/ ExtractNumericValues
  \/ AnalyzeTrend
  \/ DetectColumnAnomalies
  \/ Return

SpecGaps == Init /\ [][NextGaps]_vars

-----------------------------------------------------------------------------
(* A caller whose dataset has many anomalies: up to MaxNumeric columns that *)
(* rise by 1 from row to row, over up to MaxCrowd rows.                     *)

\* the most rows of a dataset of rising columns
MaxCrowd == 25

CrowdRow(numeric, i) == [j \in 1..numeric |-> <<NumericName(j), Num(i + j)>>]

CrowdDatasets ==
  { [i \in 1..n |-> CrowdRow(numeric, i)] : numeric \in 1..MaxNumeric, n \in 0..MaxCrowd }

LoadCrowd == LoadFrom(CrowdDatasets)

NextCrowd ==
  \/ LoadCrowd
  \/ DetectAllAnomalies
  \/ Return

SpecCrowd == Init /\ [][NextCrowd]_vars

-----------------------------------------------------------------------------
(* Properties                                                               *)

AnalyzeDone == pc = "done" /\ call.op = "analyze"

AnalyzeReturned == AnalyzeDone /\ response.status = "returned"

\* the order of the categories the specification gives
CategoryOrder ==
  <<"profile", "summary", "anomalies", "forecast", "trends", "correlation", "explain">>

KeywordsOf(category) ==
  UNION { IntentKeywords[i].words :
            i \in { j \in DOMAIN IntentKeywords : IntentKeywords[j].intent = category } }

HasKeywordIn(lowerQuery, category) ==
  \E w \in KeywordsOf(category) : includes(lowerQuery, w)

HasKeywordOf(query, category) == HasKeywordIn(toLowerCase(query), category)

FirstCategoryIn(lowerQuery) ==
  LET matching == { i \in DOMAIN CategoryOrder : HasKeywordIn(lowerQuery, CategoryOrder[i]) }
  IN  IF matching = {} THEN "summary"
      ELSE CategoryOrder[CHOOSE i \in matching : \A j \in matching : i <= j]

FirstCategory(query) == FirstCategoryIn(toLowerCase(query))

\* the intent detected for the query of the call is the first category with
\* a keyword in it, and on a non-empty dataset analyze answers with what the
\* handler of that intent returns
HandledAs(expected, target) ==
  CASE expected = "profile" -> handleProfileQuery(dataset)
    [] expected = "summary" -> handleSummaryQuery(dataset, target)
    [] expected = "anomalies" -> handleAnomalyQuery(dataset, target)
    [] expected = "forecast" -> handleForecastQuery(dataset, target)
    [] expected = "trends" -> handleTrendQuery(dataset, target)
    [] expected = "correlation" -> handleCorrelationQuery(dataset, target)
    [] expected = "explain" -> handleExplainQuery(dataset, target)

DispatchedAs(detected, expected) ==
  /\ detected.intent = expected
  /\ Len(dataset) > 0 => response = HandledAs(expected, detected.targetColumn)

FirstCategoryDispatched ==
  DispatchedAs(detectIntent(call.query), FirstCategory(call.query))

\* the lower-cased query of the call contains both "trend" and "forecast"
TrendAndForecast ==
  /\ includes(toLowerCase(call.query), <<"t", "r", "e", "n", "d">>)
  /\ includes(toLowerCase(call.query), <<"f", "o", "r", "e", "c", "a", "s", "t">>)

\* C1 as stated: the intent detected for a query is the first category, in
\* the order profile, summary, anomalies, forecast, trends, correlation,
\* explain, with a keyword in the lower-cased query, or summary when there is
\* none; every query with both "trend" and "forecast" gets forecast; and on a
\* non-empty dataset analyze answers with what the handler of that intent
\* returns.
C1_AsStated ==
  AnalyzeDone =>
    /\ FirstCategoryDispatched
    /\ TrendAndForecast => detectIntent(call.query).intent = "forecast"

\* C1, amended: the intent detected for a query is the first category in the
\* fixed order with a keyword in the lower-cased query, or summary when
\* there is none; a query with both "trend" and "forecast" and no keyword of
\* profile, summary or anomalies gets forecast; and on a non-empty dataset
\* analyze answers with what the handler of that intent returns.
C1_FirstCategoryWins ==
  AnalyzeDone =>
    /\ FirstCategoryDispatched
    /\ (/\ TrendAndForecast
        /\ \A c \in {"profile", "summary", "anomalies"} : ~ HasKeywordOf(call.query, c))
         => detectIntent(call.query).intent = "forecast"

C1_Witness ==
  /\ AnalyzeReturned
  /\ Len(dataset) > 0
  /\ call.query = <<"T", "r", "e", "n", "d", "s", " ", "f", "o", "r", "e", "c", "a", "s", "t">>
  /\ response.value.intent = "forecast"

\* C2: analyze with an empty dataset returns, for every query, a response
\* whose textSummary says that no data was provided, whose insights are empty
\* and whose recommendedCharts are empty, with no output of any analyzer.
C2_EmptyDatasetShortCircuit ==
  (AnalyzeDone /\ Len(dataset) = 0) =>
    /\ response.status = "returned"
    /\ response.value.textSummary
         = "No data provided for analysis. Please provide a valid dataset."
    /\ DOMAIN response.value.insights = {}
    /\ response.value.recommendedCharts = <<>>
    /\ DOMAIN response.value
         = {"query", "intent", "insights", "textSummary", "recommendedCharts"}

C2_Witness ==
  /\ AnalyzeReturned
  /\ Len(dataset) = 0
  /\ call.query = <<"e", "x", "p", "l", "a", "i", "n", " ", "f", "o", "r", "e", "c", "a", "s", "t">>
  /\ DOMAIN response.value.insights = {}

\* C3: on a non-empty dataset the query of the response is the query analyze
\* was called with.
C3_ResponseCarriesQuery ==
  (AnalyzeReturned /\ Len(dataset) > 0) => response.value.query = call.query

\* C4: on a non-empty dataset the intent of the response is the intent
\* detected for the query.
C4_ResponseCarriesIntent ==
  (AnalyzeReturned /\ Len(dataset) > 0) =>
    response.value.intent = detectIntent(call.query).intent

\* C5: on a non-empty dataset a query of intent summary, explain or profile
\* gets a response with executiveSummary and recommendations, both populated.
C5_SummariesPopulated ==
  (/\ AnalyzeReturned
   /\ Len(dataset) > 0
   /\ detectIntent(call.query).intent \in {"summary", "explain", "profile"}) =>
    /\ {"executiveSummary", "recommendations"} \subseteq DOMAIN response.value
    /\ response.value.recommendations # <<>>

ExplainEverything ==
  /\ AnalyzeDone
  /\ Len(dataset) > 0
  /\ detectIntent(call.query).intent = "explain"
  /\ detectIntent(call.query).targetColumn = <<>>

\* C6: a query of intent explain with no target column gets, on a non-empty
\* dataset, the complete analysis: the insights are profile, statistics,
\* trends, anomalies, forecasts, correlations and keyInsights, each what its
\* analyzer returns for the dataset, and executiveSummary, recommendations and
\* recommendedCharts are what the synthesizer derives from keyInsights.
C6_CompleteAnalysis ==
  ExplainEverything =>
    LET profile == profileDataset(dataset)
        keyInsights == generateKeyInsights(dataset, profile)
        value == response.value
    IN  /\ response.status = "returned"
        /\ DOMAIN value.insights = {"profile", "statistics", "trends", "anomalies",
                                    "forecasts", "correlations", "keyInsights"}
        /\ value.insights.profile = profile
        /\ value.insights.statistics = generateStatisticalSummary(dataset, profile)
        /\ value.insights.trends = analyzeAllTrends(dataset)
        /\ value.insights.anomalies = detectAllAnomalies(dataset)
        /\ Returned(value.insights.forecasts) = forecastAll(dataset, DefaultPeriods)
        /\ value.insights.correlations = analyzeCorrelations(dataset)
        /\ value.insights.keyInsights = keyInsights
        /\ value.executiveSummary = generateExecutiveSummary(dataset, profile, keyInsights)
        /\ value.recommendations = generateRecommendations(keyInsights)
        /\ value.recommendedCharts = suggestVisualizations(profile, keyInsights)

C6_Witness ==
  /\ ExplainEverything
  /\ response.status = "returned"
  /\ Len(response.value.insights.forecasts) > 0
  /\ Len(response.value.insights.trends) > 0
  /\ Len(response.value.insights.keyInsights) > 0

\* C7: analyze("forecast revenue", D) on a non-empty D with a column revenue
\* returns intent forecast and exactly one ForecastResult, for column revenue.
C7_ForecastRevenueBindsTarget ==
  (/\ AnalyzeDone
   /\ call.query = <<"f", "o", "r", "e", "c", "a", "s", "t", " ", "r", "e", "v", "e", "n", "u", "e">>
   /\ Len(dataset) > 0
   /\ \E i \in DOMAIN dataset[1] : dataset[1][i][1] = revenue) =>
    /\ response.status = "returned"
    /\ response.value.intent = "forecast"
    /\ Len(response.value.insights.forecasts) = 1
    /\ response.value.insights.forecasts[1].column = revenue

NumbersOf(column) == Len(extractNumericValues(dataset, column))

\* C8: on a non-empty dataset analyze returns an InsightResponse for every
\* query and never throws; a forecast of a column with fewer than 5 numbers
\* has no predictions and says so, and a trend of a column with fewer than 3
\* numbers is stable with strength 0.
C8_AnalyzeNeverThrows ==
  (AnalyzeDone /\ Len(dataset) > 0) =>
    /\ response.status = "returned"
    /\ {"query", "intent", "insights", "textSummary", "recommendedCharts"}
         \subseteq DOMAIN response.value
    /\ "forecasts" \in DOMAIN response.value.insights =>
         \A i \in DOMAIN response.value.insights.forecasts :
           LET f == response.value.insights.forecasts[i]
           IN  NumbersOf(f.column) < 5 => (f.predictions = <<>> /\ ~ f.sufficient)
    /\ "trends" \in DOMAIN response.value.insights =>
         \A i \in DOMAIN response.value.insights.trends :
           LET t == response.value.insights.trends[i]
           IN  NumbersOf(t.column) < 3 => (t.direction = "stable" /\ t.strength = R2Zero)

C8_Witness ==
  /\ AnalyzeReturned
  /\ Len(dataset) > 0
  /\ detectIntent(call.query).intent = "forecast"
  /\ detectIntent(call.query).targetColumn = cost
  /\ \E i \in DOMAIN dataset : Get(dataset[i], cost).k \in {"null", "string", "boolean"}
  /\ response.value.insights.forecasts[1].predictions = <<>>

\* C9: forecast called with a negative number of periods never returns a
\* ForecastResult.
C9_NegativePeriodsRejected ==
  (pc = "done" /\ call.op = "forecast" /\ call.periods < 0) =>
    response.status = "thrown"

\* C10: no call of analyze or of an exported analyzer changes the dataset: it
\* holds the same rows in the same order with the same keys and cells after
\* the call as before.
C10_DatasetUnchanged ==
  [][(pc = "idle" /\ pc' = "done") => dataset' = dataset]_vars

C10_Witness ==
  /\ pc = "done"
  /\ call.op = "generateKeyInsights"
  /\ Len(dataset) = MaxRows
  /\ dataset[1] # dataset[MaxRows]

\* the caller repeats the call it kept the result of, on the dataset it was
\* made on
Repeated ==
  /\ pc = "done"
  /\ earlier # NoCall
  /\ earlier.call = call
  /\ earlier.dataset = dataset

ForecastDone == pc = "done" /\ call.op = "forecast"

\* lower <= value <= upper for a point whose bounds are offsets from value
WithinConfidence(point) ==
  /\ point.confidence.lower.sgn <= 0 \/ point.confidence.lower.sq.n = 0
  /\ point.confidence.upper.sgn >= 0 \/ point.confidence.upper.sq.n = 0

\* C12: forecast of a column with at least 5 numeric values, for every
\* method and every number of periods p >= 1, returns exactly p prediction
\* points, numbered 1..p in order, each with lower <= value <= upper.
C12_ForecastPoints ==
  (ForecastDone /\ call.periods >= 1 /\ NumbersOf(call.column) >= 5) =>
    /\ response.status = "returned"
    /\ Len(response.value.predictions) = call.periods
    /\ \A i \in DOMAIN response.value.predictions :
         /\ response.value.predictions[i].period = i
         /\ WithinConfidence(response.value.predictions[i])

C12_Witness ==
  /\ ForecastDone
  /\ call.periods = DefaultPeriods
  /\ call.method = "auto"
  /\ NumbersOf(call.column) >= 5
  /\ response.status = "returned"
  /\ response.value.method = "linear"
  /\ Len(response.value.predictions) = DefaultPeriods
  /\ response.value.predictions[DefaultPeriods].confidence.upper.sq.n > 0

AnomaliesDone == pc = "done" /\ call.op = "detectColumnAnomalies"

\* what the three detectors flag in a column, in the order of the detectors
CandidatesOf(values, columnName) ==
  detectZScoreAnomalies(values, columnName)
  \o detectIQRAnomalies(values, columnName)
  \o detectRollingAnomalies(values, columnName)

Candidates == CandidatesOf(extractNumericValues(dataset, call.column), call.column)

\* found holds one anomaly for each row of the candidates, the one of the
\* highest score, in descending order of score
MergedSorted(found, candidates) ==
  /\ \A i, j \in DOMAIN found : found[i].rowIndex = found[j].rowIndex => i = j
  /\ \A i \in DOMAIN found :
       /\ \E c \in DOMAIN candidates : candidates[c] = found[i]
       /\ \A c \in DOMAIN candidates :
            candidates[c].rowIndex = found[i].rowIndex =>
              FLeq(candidates[c].score2, found[i].score2)
  /\ \A c \in DOMAIN candidates :
       \E i \in DOMAIN found : found[i].rowIndex = candidates[c].rowIndex
  /\ \A i \in 1..(Len(found) - 1) : FLeq(found[i + 1].score2, found[i].score2)

\* a row flagged twice, the later time with the higher score
HigherScoreLater(candidates) ==
  \E a, b \in DOMAIN candidates :
    /\ a < b
    /\ candidates[a].rowIndex = candidates[b].rowIndex
    /\ FLess(candidates[a].score2, candidates[b].score2)

\* C13: detectColumnAnomalies returns at most one anomaly per row index;
\* the anomaly of a row is one the detectors flagged, with the highest score
\* among those flagged for the row; every flagged row has one; and the list
\* is in descending order of score.
C13_MergedByRowSortedByScore ==
  AnomaliesDone => MergedSorted(response.value, Candidates)

\* a row flagged by one detector and, with a higher score, by a later one;
\* and two anomalies of different scores in the result
C13_Witness ==
  /\ AnomaliesDone
  /\ HigherScoreLater(Candidates)
  /\ Len(response.value) > 1
  /\ FLess(response.value[Len(response.value)].score2, response.value[1].score2)


AllEqual(values) == \A i, j \in DOMAIN values : values[i] = values[j]

\* C14: detectColumnAnomalies of a column whose numeric values are all equal
\* returns no anomalies, whatever the length of the series.
C14_ConstantSeriesNoAnomalies ==
  (AnomaliesDone /\ AllEqual(extractNumericValues(dataset, call.column))) =>
    response.value = <<>>

\* a constant series other than 0, long enough for the three detectors
C14_Witness ==
  /\ AnomaliesDone
  /\ AllEqual(extractNumericValues(dataset, call.column))
  /\ Len(extractNumericValues(dataset, call.column)) > 2 * RollingWindow
  /\ extractNumericValues(dataset, call.column)[1] < 0
  /\ response.value = <<>>

\* the dataset is the scenario with the outlier in the row of index k
ScenarioWith(k) == dataset = SeriesOf(ScenarioValues(k))

OutlierFound(found, k) ==
  \E i \in DOMAIN found :
    found[i].rowIndex = k /\ found[i].type \in {"zscore", "iqr", "spike"}

\* C17: in the 30 rows whose revenue rises linearly from 1000 to 2000, one
\* row, at any position, replaced by 10 times its value,
\* detectColumnAnomalies(D, "revenue") holds an anomaly of the outlier's row
\* index, of type zscore, iqr or spike.
C17_OutlierDetected ==
  \A k \in 0..(Scenario.rows - 1) :
    (AnomaliesDone /\ call.column = revenue /\ ScenarioWith(k)) =>
      OutlierFound(response.value, k)

\* the outlier in the first row, which no rolling window reaches
C17_Witness ==
  /\ AnomaliesDone
  /\ call.column = revenue
  /\ ScenarioWith(0)
  /\ OutlierFound(response.value, 0)
  /\ Len(response.value) > 1

TrendDone == pc = "done" /\ call.op = "analyzeTrend"

\* C18: in the same 30 rows, analyzeTrend(D, "revenue") reports the direction
\* increasing, wherever the outlier is.
C18_ScenarioIncreasing ==
  \A k \in 0..(Scenario.rows - 1) :
    (TrendDone /\ call.column = revenue /\ ScenarioWith(k)) =>
      response.value.direction = "increasing"

TypeDone == pc = "done" /\ call.op = "detectColumnType"

\* the number of cells of a sample that are boolean-like, numeric, date-like
BooleanLike(sample) == Cardinality({ i \in DOMAIN sample : IsBooleanText(sample[i]) })
NumericLike(sample) == Cardinality({ i \in DOMAIN sample : IsNumericCell(sample[i]) })
DateLike(sample) == Cardinality({ i \in DOMAIN sample : IsDateLike(sample[i]) })

\* the rules of the column type, in their order of priority, on the first
\* min(100, N) of the N non-empty values and, for the number of distinct
\* values, on all of them
FirstRule(sample, nonEmpty) ==
  CASE Len(nonEmpty) = 0 -> "text"
    [] OTHER ->
       CASE BooleanLike(sample) = Len(sample) -> "boolean"
         [] OTHER ->
            CASE 100 * NumericLike(sample) >= 90 * Len(sample) -> "numeric"
              [] OTHER ->
                 CASE 100 * DateLike(sample) >= 80 * Len(sample) -> "datetime"
                   [] OTHER ->
                      IF \/ 100 * Cardinality(UniqueTexts(sample)) < 50 * Len(sample)
                         \/ Cardinality(UniqueCells(nonEmpty)) <= 20
                        THEN "categorical" ELSE "text"

TypeByRules(nonEmpty) ==
  FirstRule(SubSeq(nonEmpty, 1, Min(SampleSize, Len(nonEmpty))), nonEmpty)

OnlyZeroAndOne(nonEmpty) ==
  /\ Len(nonEmpty) > 0
  /\ \A i \in DOMAIN nonEmpty : nonEmpty[i] \in {Num(0), Num(1)}

TypedByRules(type, nonEmpty) ==
  /\ type \in {"numeric", "categorical", "datetime", "text", "boolean"}
  /\ type = TypeByRules(nonEmpty)
  /\ OnlyZeroAndOne(nonEmpty) => type = "boolean"

\* C15: detectColumnType returns one of the five column types and never
\* throws; the type is that of the first rule matched by the first
\* min(100, N) non-empty values: text when there is none, boolean when all are
\* boolean-like, numeric when 90% are numeric, datetime when 80% are
\* date-like, categorical when fewer than half of the texts are distinct or
\* the column has at most 20 distinct non-empty values, else text.  A column
\* of 0 and 1 is boolean.
C15_ColumnTypeByPriority ==
  TypeDone =>
    /\ response.status = "returned"
    /\ TypedByRules(response.value, SelectSeq(ColumnValues(dataset, region), IsNonNull))

\* a column of a hundred 1s and a text after them, outside the sample
C15_Witness ==
  /\ TypeDone
  /\ dataset = ColumnOf(Repeat(Num(1), SampleSize) \o Repeat(Str("north"), 1))
  /\ response.value = "boolean"

ProfileDone == pc = "done" /\ call.op = "profileDataset"

\* the rows whose cell of a column is null, undefined, "" or missing
EmptyRows(rows, columnName) ==
  { i \in DOMAIN rows :
      \/ \A j \in DOMAIN rows[i] : rows[i][j][1] # columnName
      \/ \E j \in DOMAIN rows[i] :
           /\ rows[i][j][1] = columnName
           /\ rows[i][j][2] \in {Null, Undefined, Str("")} }

\* c is a number of hundredths, at most half a hundredth from
\* filled / cells * 100
RoundedShare(c, filled, cells) ==
  /\ 100 % c.d = 0
  /\ Abs(2 * (c.n * (100 \div c.d)) * cells - 2 * filled * 10000) <= cells

ProfileOfFirstRowColumns(profile, rows) ==
  LET cells == Len(rows) * Len(rows[1])
      filled == Sum([j \in DOMAIN rows[1] |->
                       Len(rows) - Cardinality(EmptyRows(rows, rows[1][j][1]))])
  IN  /\ profile.rowCount = Len(rows)
      /\ profile.columnCount = Len(rows[1])
      /\ Len(profile.columns) = Len(rows[1])
      /\ \A j \in DOMAIN rows[1] :
           /\ profile.columns[j].name = rows[1][j][1]
           /\ profile.columns[j].totalCount = Len(rows)
           /\ profile.columns[j].nullCount = Cardinality(EmptyRows(rows, rows[1][j][1]))
      /\ cells > 0 => RoundedShare(profile.completeness, filled, cells)
      /\ FLeq(Zero, profile.completeness)
      /\ FLeq(profile.completeness, Int2Frac(100))

ZeroedProfile(profile) ==
  /\ profile.rowCount = 0
  /\ profile.columnCount = 0
  /\ profile.columns = <<>>
  /\ profile.completeness = Zero

\* C16: profileDataset of a dataset that is not empty profiles the columns
\* of the first row and no other, in their order; the totalCount of a column
\* is the number of rows and its nullCount the number of rows whose cell is
\* null, undefined, "" or missing; completeness is the share of the cells
\* that are not empty, in percent, rounded to 2 decimals, between 0 and 100.
\* Of an empty dataset it returns the zeroed profile and does not throw.
C16_ProfileOfFirstRowColumns ==
  ProfileDone =>
    /\ response.status = "returned"
    /\ IF Len(dataset) = 0 THEN ZeroedProfile(response.value)
       ELSE ProfileOfFirstRowColumns(response.value, dataset)

\* a later row holds a column the first row does not, a column has empty
\* cells, and the completeness is not a whole number of percent
C16_Witness ==
  /\ ProfileDone
  /\ Len(dataset) > 1
  /\ \E j \in DOMAIN dataset[2] :
       \A k \in DOMAIN dataset[1] : dataset[1][k][1] # dataset[2][j][1]
  /\ \E j \in DOMAIN response.value.columns : response.value.columns[j].nullCount > 1
  /\ response.value.completeness.d > 1

MatrixDone == pc = "done" /\ call.op = "calculateCorrelationMatrix"

\* the columns of the first row that are inferred as numeric
NumericNames(rows) ==
  IF Len(rows) = 0 THEN {}
  ELSE { rows[1][j][1] : j \in { k \in DOMAIN rows[1] :
           detectColumnType(ColumnValues(rows, rows[1][k][1])) = "numeric" } }

SymmetricOver(matrix, names) ==
  /\ SeqRange(matrix.columns) = names
  /\ DOMAIN matrix.at = names
  /\ \A a \in names :
       /\ DOMAIN matrix.at[a] = names
       /\ matrix.at[a][a] = CoefOne
       /\ \A b \in names : matrix.at[a][b] = matrix.at[b][a]

\* C19: the matrix of calculateCorrelationMatrix is indexed in both
\* dimensions by the columns inferred as numeric and by no other, holds 1 for
\* every such column with itself and the same entry for a pair of columns in
\* both orders, for every dataset.
C19_MatrixSymmetric ==
  MatrixDone =>
    /\ response.status = "returned"
    /\ SymmetricOver(response.value, NumericNames(dataset))

DifferentCounts(matrix, rows) ==
  \E a, b \in SeqRange(matrix.columns) :
    /\ Len(extractNumericValues(rows, a)) < Len(extractNumericValues(rows, b))
    /\ matrix.at[a][b].sgn # 0

\* two numeric columns of different numbers of values whose coefficient is
\* not 0, beside a column that is not numeric
C19_Witness ==
  /\ MatrixDone
  /\ DifferentCounts(response.value, dataset)
  /\ Len(response.value.columns) < Len(dataset[1])

UploadDone == pc = "done" /\ call.op = "upload"

\* the indices of the commas of a line before which the number of double
\* quotes is even
OutsideCommas(line) ==
  { i \in DOMAIN line :
      /\ line[i] = ","
      /\ Cardinality({ j \in 1..(i - 1) : line[j] = "\"" }) % 2 = 0 }

\* the part of a line between the k-th comma outside quotes and the next
\* one, the start and the end of the line counting as such commas
Segment(line, k) ==
  LET at(n) == IF n = 0 THEN 0
               ELSE IF n > Cardinality(OutsideCommas(line)) THEN Len(line) + 1
               ELSE CHOOSE i \in OutsideCommas(line) :
                      Cardinality({ j \in OutsideCommas(line) : j <= i }) = n
  IN  SubSeq(line, at(k - 1) + 1, at(k) - 1)

Count(c, s) == Cardinality({ i \in DOMAIN s : s[i] = c })

\* fields are the fields of a line: one for each part between commas outside
\* quotes, with the commas of the part; the part trimmed when it has no quote
FieldsOfLine(fields, line) ==
  /\ Len(fields) = Cardinality(OutsideCommas(line)) + 1
  /\ \A k \in DOMAIN fields :
       /\ Count(",", fields[k]) = Count(",", Segment(line, k))
       /\ Count("\"", Segment(line, k)) = 0 => fields[k] = trim(Segment(line, k))

\* obj holds the names of the header as its keys, each once, and no other
\* key; the value of a name is the field at the last place of the name in
\* the header, the empty string when the line has no such field
ObjectOfHeader(obj, headers, fields) ==
  /\ { obj[i][1] : i \in DOMAIN obj } = SeqRange(headers)
  /\ \A i, j \in DOMAIN obj : obj[i][1] = obj[j][1] => i = j
  /\ \A h \in DOMAIN headers :
       (\A g \in DOMAIN headers : headers[g] = headers[h] => g <= h) =>
         \E i \in DOMAIN obj :
           /\ obj[i][1] = headers[h]
           /\ obj[i][2] = IF h <= Len(fields) THEN fields[h] ELSE <<>>

ParsedAs(answer, lines) ==
  IF Len(lines) = 0 THEN answer.status = 400
  ELSE /\ answer.status = 200
       /\ FieldsOfLine(answer.columns, lines[1])
       /\ Len(answer.row_data) = Len(lines) - 1
       /\ \A r \in DOMAIN answer.row_data :
            \E fields \in { FieldsFrom(lines[r + 1], 1, <<>>, <<>>, FALSE) } :
              /\ FieldsOfLine(fields, lines[r + 1])
              /\ ObjectOfHeader(answer.row_data[r], answer.columns, fields)

\* C20: the CSV parser splits a line at the commas outside double quotes
\* and keeps a comma inside them in its field, trims the text of a field
\* without quotes, and takes the first line that is not blank as the header;
\* the row object of every later line has the names of the header as its
\* keys and no other, with the empty string for a cell the line does not
\* supply.
C20_CsvRowsFollowHeader ==
  UploadDone => ParsedAs(response.value, LinesOf(call.text))

\* a header of two names and a line whose one field is a quoted comma, the
\* second cell not supplied
C20_Witness ==
  /\ UploadDone
  /\ response.value.status = 200
  /\ Len(response.value.columns) = 2
  /\ response.value.columns[1] # response.value.columns[2]
  /\ Len(response.value.row_data) = 1
  /\ response.value.row_data[1][1][2] = <<",">>
  /\ response.value.row_data[1][2][2] = <<>>

\* R-squared of the linear fit of the values above 0.7
FitAbove(values) == R2Above(linearRegression(values).r2, Frac(7, 10))

\* stddev / mean above 0.3, for a mean that is not 0: the mean is positive
\* and 100 times the variance above 9 times its square.  In sums: s the sum
\* of the n values and q that of their squares, n q - s s > 9/100 s s.
VariationAbove(values) ==
  /\ Sum(values) > 0
  /\ 100 * (Len(values) * Sum([i \in DOMAIN values |-> values[i] * values[i]])
              - Sum(values) * Sum(values))
       > 9 * Sum(values) * Sum(values)

MethodByRules(values, used) ==
  IF FitAbove(values) THEN used = "linear"
  ELSE IF Sum(values) = 0 THEN used \in {"exponential", "rolling"}
  ELSE IF VariationAbove(values) THEN used = "exponential"
  ELSE used = "rolling"

\* C21: a forecast of at least 5 numeric values with method auto uses linear
\* when the R-squared of the linear fit is above 0.7, else exponential when
\* stddev / mean is above 0.3, else rolling; with another method it uses that
\* method; the method of the result is the one used, never auto.
C21_MethodSelection ==
  (ForecastDone /\ NumbersOf(call.column) >= 5 /\ response.status = "returned") =>
    /\ response.value.method \in {"linear", "exponential", "rolling"}
    /\ call.method # "auto" => response.value.method = call.method
    /\ call.method = "auto" =>
         MethodByRules(extractNumericValues(dataset, call.column), response.value.method)

\* auto on a series of negative mean whose fit is poor and whose deviation
\* is above 0.3 of the size of the mean: rolling
C21_Witness ==
  /\ ForecastDone
  /\ call.method = "auto"
  /\ NumbersOf(call.column) >= 5
  /\ Sum(extractNumericValues(dataset, call.column)) < 0
  /\ ~ FitAbove(extractNumericValues(dataset, call.column))
  /\ response.status = "returned"
  /\ response.value.method = "rolling"
  /\ Len(response.value.predictions) = DefaultPeriods

\* slope / mean of the linear fit, the mean taken as 1 when it is 0
NormalizedSlope(values) ==
  IF Sum(values) = 0 THEN linearRegression(values).slope
  ELSE FDiv(linearRegression(values).slope, Frac(Sum(values), Len(values)))

\* stddev / |mean| > 0.5 and R-squared < 0.3, for a mean that is not 0
VolatileByRules(values) ==
  /\ 4 * (Len(values) * Sum([i \in DOMAIN values |-> values[i] * values[i]])
           - Sum(values) * Sum(values))
       > Sum(values) * Sum(values)
  /\ R2Less(linearRegression(values).r2, Frac(3, 10))

DirectionByRules(values, direction) ==
  IF Sum(values) # 0 /\ VolatileByRules(values) THEN direction = "volatile"
  ELSE /\ Sum(values) # 0 => direction # "volatile"
       /\ direction # "volatile" =>
            direction = IF FLess(FAbs(NormalizedSlope(values)), Frac(1, 100)) THEN "stable"
                        ELSE IF NormalizedSlope(values).n > 0 THEN "increasing"
                        ELSE "decreasing"

TrendByRules(trend, values) ==
  IF Len(values) < 3
    THEN /\ trend.direction = "stable"
         /\ trend.strength = R2Zero
         /\ ~ trend.seasonality
         /\ trend.shifts = <<>>
         /\ trend.insufficient
    ELSE /\ DirectionByRules(values, trend.direction)
         /\ ~ trend.insufficient
         /\ ~ R2Above(trend.strength, One)
         /\ ~ R2Less(trend.strength, Zero)
         /\ trend.strength = IF R2Above(linearRegression(values).r2, One)
                                THEN R2One ELSE linearRegression(values).r2

\* C22: analyzeTrend of at least 3 numeric values reports stable when
\* |slope / mean| < 0.01 (the mean taken as 1 when it is 0), else increasing or
\* decreasing by the sign of slope / mean, and volatile instead exactly when
\* stddev / |mean| > 0.5 and R-squared < 0.3; strength is min(|R-squared|, 1),
\* in [0, 1].  Of fewer than 3 values it reports stable, strength 0, no
\* seasonality, no shifts and the explanation of insufficient data.
C22_TrendDirection ==
  TrendDone => TrendByRules(response.value, extractNumericValues(dataset, call.column))

\* a series that is not constant, of a slope below 0.01 of its mean: stable
C22_Witness ==
  /\ TrendDone
  /\ NumbersOf(call.column) >= 3
  /\ linearRegression(extractNumericValues(dataset, call.column)).slope.n > 0
  /\ response.value.direction = "stable"
  /\ response.value.strength # R2Zero

CorrelationsDone == pc = "done" /\ call.op = "analyzeCorrelations"

\* the Pearson pairs of the matrix that have a strength, all of them
NumericPairs(matrix) ==
  findStrongestCorrelations(matrix, Len(PairsFrom(1, 2, Len(matrix.columns))))

\* list holds at most 15 pairs of the union, sorted by |coefficient| in
\* descending order, and no pair it leaves out has a larger |coefficient| than
\* one it holds
StrongestOf(list, union) ==
  /\ Len(list) <= 15
  /\ \A i \in DOMAIN list : \E u \in DOMAIN union : union[u] = list[i]
  /\ \A i, j \in DOMAIN list :
       i < j => FLeq(list[j].coefficient.sq, list[i].coefficient.sq)
  /\ \A u \in DOMAIN union :
       (\A i \in DOMAIN list : list[i] # union[u])
         => \A i \in DOMAIN list : FLeq(union[u].coefficient.sq, list[i].coefficient.sq)

\* C23: the strongestRelations of analyzeCorrelations are the union of the
\* numeric (Pearson) pairs and the categorical (Cramer's V above 0.1) pairs,
\* sorted by |coefficient| in descending order and cut to the first 15: at
\* most 15 pairs, and no pair that is left out has a larger |coefficient| than
\* a pair that is included.
C23_StrongestOfUnion ==
  CorrelationsDone /\ Len(dataset) > 0 =>
    StrongestOf(response.value.strongestRelations,
                NumericPairs(response.value.matrix)
                \o calculateCategoricalCorrelations(dataset))

RecommendationsDone == pc = "done" /\ call.op = "generateRecommendations"

\* C24: for every list of insights, generateRecommendations returns at most
\* 7 recommendations, among them the generic one to establish ongoing
\* monitoring for key metrics.
C24_MonitoringAmongAtMostSeven ==
  RecommendationsDone =>
    /\ Len(response.value) <= MaxRecommendations
    /\ \E i \in DOMAIN response.value : response.value[i] = MonitoringRecommendation

\* the query of the responses the handlers give for a target column
ColumnQueries(target) ==
  { <<"A", "n", "o", "m", "a", "l", "i", "e", "s", " ", "i", "n", " ">> \o target,
    <<"F", "o", "r", "e", "c", "a", "s", "t", " ">> \o target,
    <<"T", "r", "e", "n", "d", "s", " ", "i", "n", " ">> \o target,
    <<"C", "o", "r", "r", "e", "l", "a", "t", "i", "o", "n", "s", " ", "w", "i", "t", "h", " ">>
      \o target }

\* analyze answered with the analysis of the column the query's target names
ColumnLevel ==
  /\ AnalyzeReturned
  /\ Len(dataset) > 0
  /\ detectIntent(call.query).targetColumn # <<>>
  /\ detectIntent(call.query).intent \in {"anomalies", "forecast", "trends", "correlation"}
  /\ response.value.query \in ColumnQueries(detectIntent(call.query).targetColumn)

\* C25: whenever analyze runs a column-level analysis (forecast, analyzeTrend,
\* getColumnAnomalySummary, findCorrelatedFeatures) for the target column
\* extracted from the query, that column is a column of the dataset.
C25_TargetIsAColumn ==
  ColumnLevel =>
    \E i \in DOMAIN dataset :
      detectIntent(call.query).targetColumn \in SeqRange(Keys(dataset[i]))

\* C26: every anomaly of detectColumnAnomalies(rows, c) identifies a row of
\* the dataset: rowIndex is an index into rows, and the numeric value of
\* rows[rowIndex][c] is the anomaly's value, also when rows before it hold a
\* cell in c that is not numeric.
C26_AnomalyIdentifiesRow ==
  AnomaliesDone =>
    \A i \in DOMAIN response.value :
      /\ response.value[i].rowIndex \in 0..(Len(dataset) - 1)
      /\ Number(Get(dataset[response.value[i].rowIndex + 1], call.column))
           = Num(response.value[i].value)

ExtractDone == pc = "done" /\ call.op = "extractNumericValues"

\* the cell is a finite number or a string that reads as one
IsRealNumber(cell) ==
  \/ cell.k = "number" /\ cell.s = "fin"
  \/ cell.k = "string" /\ cell.s # "" /\ StringEntry(cell.s).number.s = "fin"

\* the values of the cells of the column that are real numbers, in row order
RealNumbers(rows, column) ==
  LET cells == SelectSeq(ColumnValues(rows, column), IsRealNumber)
  IN  [i \in DOMAIN cells |->
         IF cells[i].k = "number" THEN cells[i].v ELSE StringEntry(cells[i].s).number.v]

\* C27: the numeric series of a column holds exactly its cells that are
\* finite numbers or strings that parse as one, in row order; an empty cell
\* (null, undefined, the empty string, missing) or a non-numeric one gives no
\* value, so the thresholds (3 values for trends, 10 for anomalies) count the
\* numeric cells only.
C27_SeriesOfNumericCells ==
  /\ ExtractDone => response.value = RealNumbers(dataset, call.column)
  /\ TrendDone =>
       (response.value.insufficient <=> Len(RealNumbers(dataset, call.column)) < 3)
  /\ AnomaliesDone /\ Len(response.value) > 0 =>
       Len(RealNumbers(dataset, call.column)) >= 10

\* the indices of the rows whose cell of the column extractNumericValues
\* keeps, in row order: its i-th value is the one of the i-th of these rows
NumericRowsOf(rows, column) ==
  SelectSeq([i \in DOMAIN rows |-> i],
            LAMBDA i : IsFiniteNumber(Number(Get(rows[i], column))))

\* the i-th values of the two columns, which pearsonCorrelation pairs, are
\* of the same row
PairedByRow(rows, col1, col2) ==
  \A i \in 1..Min(Len(NumericRowsOf(rows, col1)), Len(NumericRowsOf(rows, col2))) :
    NumericRowsOf(rows, col1)[i] = NumericRowsOf(rows, col2)[i]

\* C28: whenever a Pearson correlation between two columns is computed, the
\* i-th pair of values that enters it is taken from one and the same row of
\* the dataset, also when some rows hold a non-numeric cell in only one of
\* the two columns.
C28_PairsFromOneRow ==
  MatrixDone =>
    \A a \in SeqRange(response.value.columns), b \in SeqRange(response.value.columns) :
      PairedByRow(dataset, a, b)

StrictlyIncreasing(values) == \A i \in 1..(Len(values) - 1) : values[i] < values[i + 1]

StrictlyDecreasing(values) == \A i \in 1..(Len(values) - 1) : values[i] > values[i + 1]

\* C29: analyzeTrend never reports decreasing for a strictly increasing
\* series, nor increasing for a strictly decreasing one, whatever the sign of
\* the mean of the series.
C29_DirectionFollowsSeries ==
  TrendDone =>
    /\ StrictlyIncreasing(extractNumericValues(dataset, call.column))
         => response.value.direction # "decreasing"
    /\ StrictlyDecreasing(extractNumericValues(dataset, call.column))
         => response.value.direction # "increasing"

AllAnomaliesDone == pc = "done" /\ call.op = "detectAllAnomalies"

\* C30: in the result of detectAllAnomalies, affectedColumns is exactly the
\* set of the columns that have an anomaly in the returned list, also when the
\* combined list was cut to its 100 highest-scored anomalies.
C30_AffectedColumnsOfReturned ==
  AllAnomaliesDone =>
    SeqRange(response.value.affectedColumns)
      = { response.value.anomalies[i].column : i \in DOMAIN response.value.anomalies }
=============================================================================
